---- MODULE Spec2Model ----
(***************************************************************************)
(* Verification model of the emmylua analyzer:                             *)
(*   - the workspace manager's debounced re-index (workspace_manager.rs),  *)
(*   - the analysis pipeline driver (compilation/analyzer/mod.rs),         *)
(*   - member resolution (semantic/infer/infer_index.rs),                  *)
(*   - the statement analysis of the type-inference pass and the table     *)
(*     expressions of the declaration pass (compilation/analyzer/lua/      *)
(*     stats.rs, compilation/analyzer/decl/exprs.rs),                      *)
(*   - configuration discovery and workspace file selection                *)
(*     (workspace_manager.rs, vfs/loader.rs, collect_files.rs),            *)
(*   - member enumeration (semantic/member/find_members.rs).               *)
(* Each part has its own specification over the shared variables; the     *)
(* variables of the other parts stay at their initial values.              *)
(***************************************************************************)
EXTENDS Integers, Sequences, FiniteSets, TLC

VARIABLES
    update_token,   \* WorkspaceManager.update_token: 0 (None) or the id of a token
    tasks,          \* the spawned tasks, in request order; task i owns ReindexToken i
    writer,         \* analysis RwLock: the task holding the write guard, 0 if none
    readers,        \* analysis RwLock: number of read guards held by queries
    db,             \* what a reader of the analysis database would observe
    need_analyzed_files, \* analyze: per file, the outcome of its path / workspace lookup
    an_iter,        \* module_analyze: iteration order of file_tree_map
    contexts,       \* analyze: the (workspace id, tree_list) contexts
    an_pc,          \* analyze: "idle", "kg", "passes" or "done"
    an_pos,         \* analyze: <<context index, pass index, file index>>
    an_log,         \* the (context, pass, file) steps run so far, in order
    db_index,       \* member resolution: the type declarations and strict.array_index
    index_query,    \* member resolution: the prefix type and index expression asked
    index_result,   \* member resolution: what the two lookup rules answered
    type_cache,     \* LuaTypeIndex: the type bound to each type owner
    unresolves,     \* AnalyzeContext.unresolves: the (item, reason) pairs, in order
    member_index,   \* LuaMemberIndex: the current owner of each member, the members of each owner
    operator_index, \* LuaOperatorIndex: the operators added, in order
    lua_stat,       \* the statements analyzed so far, in order
    emmyrc,         \* Emmyrc: runtime.classDefaultCall.functionName
    config_load,    \* load_emmy_config: the environment it ran in and what it collected
    file_load,      \* file selection: the settings, the file asked about and the answers
    member_query    \* find_members: the prefix type and filter asked, and the members found

wmVars == <<update_token, tasks, writer, readers, db>>

anVars == <<need_analyzed_files, an_iter, contexts, an_pc, an_pos, an_log>>

inferVars == <<db_index, index_query, index_result>>

vars == <<update_token, tasks, writer, readers, db,
          need_analyzed_files, an_iter, contexts, an_pc, an_pos, an_log,
          db_index, index_query, index_result,
          type_cache, unresolves, member_index, operator_index, lua_stat, emmyrc,
          config_load, file_load, member_query>>

luaVars == <<type_cache, unresolves, member_index, operator_index, lua_stat, emmyrc>>

loadVars == <<config_load, file_load>>

findVars == <<member_query>>

notWM == <<anVars, inferVars, luaVars, loadVars, findVars>>

notAnalyze == <<wmVars, inferVars, luaVars, loadVars, findVars>>

notInfer == <<wmVars, anVars, luaVars, loadVars, findVars>>

notLua == <<wmVars, anVars, inferVars, loadVars, findVars>>

notLoad == <<wmVars, anVars, inferVars, luaVars, findVars>>

notFind == <<wmVars, anVars, inferVars, luaVars, loadVars>>

(***************************************************************************)
(* Bounds                                                                  *)
(***************************************************************************)
MaxRequests == 2      \* re-index / config-update requests issued in one run
MaxResleeps == 1      \* completed sleeps after which no further "changed again" signal is sent
MaxReaders == 1       \* concurrent read-only queries
WorkspaceFiles == 2   \* files processed by one full re-index
MaxAnalyzeFiles == 3  \* files handed to one analyze call
MaxLibraries == 2     \* library workspaces

(***************************************************************************)
(* Workspace manager                                                       *)
(***************************************************************************)
None == 0

TaskIds == 1..Len(tasks)

\* ReindexToken::new plus the freshly spawned task, which starts in
\* wait_for_reindex.  sleeps counts completed sleep(time_sleep) periods;
\* ext_at is the value of sleeps when extend_reindex_delay was last called
\* while the task was the newest one and waiting (-1: never); files counts the per-file steps of the re-index.
NewTask(kind) ==
    [kind |-> kind, pc |-> "sleeping", cancelled |-> FALSE,
     need_re_sleep |-> FALSE, sleeps |-> 0, ext_at |-> -1, files |-> 0]

\* ReindexToken::cancel on the token stored in the slot, if any.
CancelStored(ts, tok) ==
    IF tok = None THEN ts ELSE [ts EXCEPT ![tok].cancelled = TRUE]

\* The common body of reindex_workspace and add_update_emmyrc_task: under the
\* update_token mutex cancel the stored token, store a new one, spawn the task.
Request(kind) ==
    /\ Len(tasks) < MaxRequests
    /\ tasks' = Append(CancelStored(tasks, update_token), NewTask(kind))
    /\ update_token' = Len(tasks) + 1
    /\ UNCHANGED <<writer, readers, db>> /\ UNCHANGED notWM

reindex_workspace == Request("reindex")

add_update_emmyrc_task == Request("emmyrc")

\* ReindexToken::set_resleep
set_resleep(ts, tok) ==
    [ts EXCEPT ![tok].need_re_sleep = TRUE]

\* Bookkeeping for the call itself: when the most recently requested task is
\* in its debounce wait, remember in which sleep the call was made.
NoteExtend(ts) ==
    IF Len(ts) > 0 /\ ts[Len(ts)].pc = "sleeping"
    THEN [ts EXCEPT ![Len(ts)].ext_at = ts[Len(ts)].sleeps]
    ELSE ts

\* extend_reindex_delay: set_resleep on the stored token, nothing when the
\* slot is empty.
extend_reindex_delay ==
    /\ (update_token # None /\ tasks[update_token].pc = "sleeping")
           => tasks[update_token].sleeps < MaxResleeps
    /\ tasks' = NoteExtend(IF update_token # None
                           THEN set_resleep(tasks, update_token)
                           ELSE tasks)
    /\ UNCHANGED <<update_token, writer, readers, db>> /\ UNCHANGED notWM

SleepExpire_IgnoreResleep(t) ==
    /\ tasks[t].pc = "sleeping"
    /\ tasks' = [tasks EXCEPT ![t].sleeps = @ + 1, ![t].pc = "check"]
    /\ UNCHANGED <<update_token, writer, readers, db>> /\ UNCHANGED notWM

\* wait_for_reindex, sleep branch of the select: the timer fired; under the
\* need_re_sleep mutex the flag is consumed (sleep again) or the loop ends.
SleepExpire(t) ==
    /\ tasks[t].pc = "sleeping"
    /\ tasks' = [tasks EXCEPT
           ![t].sleeps = @ + 1,
           ![t].need_re_sleep = FALSE,
           ![t].pc = IF tasks[t].need_re_sleep THEN "sleeping" ELSE "check"]
    /\ UNCHANGED <<update_token, writer, readers, db>> /\ UNCHANGED notWM

\* wait_for_reindex, cancelled branch of the select.
WaitCancelled(t) ==
    /\ tasks[t].pc = "sleeping"
    /\ tasks[t].cancelled
    /\ tasks' = [tasks EXCEPT ![t].pc = "check"]
    /\ UNCHANGED <<update_token, writer, readers, db>> /\ UNCHANGED notWM

TaskCheck_NoCancelCheck(t) ==
    /\ tasks[t].pc = "check"
    /\ tasks' = [tasks EXCEPT ![t].pc = "acquire"]
    /\ UNCHANGED <<update_token, writer, readers, db>> /\ UNCHANGED notWM

\* if cancel_token.is_cancelled() { return; }
TaskCheck(t) ==
    /\ tasks[t].pc = "check"
    /\ tasks' = [tasks EXCEPT
           ![t].pc = IF tasks[t].cancelled THEN "returned" ELSE "acquire"]
    /\ UNCHANGED <<update_token, writer, readers, db>> /\ UNCHANGED notWM

TaskAcquire_NoGuard(t) ==
    /\ tasks[t].kind = "reindex"
    /\ tasks[t].pc = "acquire"
    /\ writer' = t
    /\ tasks' = [tasks EXCEPT ![t].pc = "cleanup"]
    /\ UNCHANGED <<update_token, readers, db>> /\ UNCHANGED notWM

\* let mut analysis = analysis.write().await;
TaskAcquire(t) ==
    /\ tasks[t].kind = "reindex"
    /\ tasks[t].pc = "acquire"
    /\ writer = None
    /\ readers = 0
    /\ writer' = t
    /\ tasks' = [tasks EXCEPT ![t].pc = "cleanup"]
    /\ UNCHANGED <<update_token, readers, db>> /\ UNCHANGED notWM

\* analysis.cleanup_nonexistent_files();
TaskCleanup(t) ==
    /\ tasks[t].pc = "cleanup"
    /\ db' = "cleaned"
    /\ tasks' = [tasks EXCEPT ![t].pc = "reindex"]
    /\ UNCHANGED <<update_token, writer, readers>> /\ UNCHANGED notWM

\* analysis.reindex(): one per-file step of the full re-index.
ReindexFile(t) ==
    /\ tasks[t].pc = "reindex"
    /\ tasks[t].files < WorkspaceFiles
    /\ tasks' = [tasks EXCEPT ![t].files = @ + 1]
    /\ db' = IF tasks[t].files + 1 = WorkspaceFiles THEN "indexed" ELSE "indexing"
    /\ UNCHANGED <<update_token, writer, readers>> /\ UNCHANGED notWM

\* add_workspace_diagnostic_task(..).await, then the task ends and the write
\* guard is dropped.
TaskDiagnostic(t) ==
    /\ tasks[t].pc = "reindex"
    /\ tasks[t].files = WorkspaceFiles
    /\ writer' = None
    /\ tasks' = [tasks EXCEPT ![t].pc = "finished"]
    /\ UNCHANGED <<update_token, readers, db>> /\ UNCHANGED notWM

\* init_analysis(..).await of the config-update task: takes the write guard
\* and rebuilds the workspace.
InitAnalysisBegin(t) ==
    /\ tasks[t].kind = "emmyrc"
    /\ tasks[t].pc = "acquire"
    /\ writer = None
    /\ readers = 0
    /\ writer' = t
    /\ db' = "indexing"
    /\ tasks' = [tasks EXCEPT ![t].pc = "init"]
    /\ UNCHANGED <<update_token, readers>> /\ UNCHANGED notWM

InitAnalysisEnd(t) ==
    /\ tasks[t].pc = "init"
    /\ writer' = None
    /\ db' = "indexed"
    /\ tasks' = [tasks EXCEPT ![t].pc = "take"]
    /\ UNCHANGED <<update_token, readers>> /\ UNCHANGED notWM

\* let mut tokens = config_update_token.lock().await; tokens.take();
TakeToken(t) ==
    /\ tasks[t].pc = "take"
    /\ update_token' = None
    /\ tasks' = [tasks EXCEPT ![t].pc = "finished"]
    /\ UNCHANGED <<writer, readers, db>> /\ UNCHANGED notWM

\* A read-only query (hover, completion, goto) takes and drops a read guard.
ReadBegin ==
    /\ writer = None
    /\ readers < MaxReaders
    /\ readers' = readers + 1
    /\ UNCHANGED <<update_token, tasks, writer, db>> /\ UNCHANGED notWM

ReadEnd ==
    /\ readers > 0
    /\ readers' = readers - 1
    /\ UNCHANGED <<update_token, tasks, writer, db>> /\ UNCHANGED notWM

WMIdle ==
    /\ update_token = None
    /\ tasks = <<>>
    /\ writer = None
    /\ readers = 0
    /\ db = "indexed"

AnalyzeIdle ==
    /\ need_analyzed_files = <<>>
    /\ an_iter = <<>>
    /\ contexts = <<>>
    /\ an_pc = "idle"
    /\ an_pos = <<1, 1, 1>>
    /\ an_log = <<>>

InferIdle ==
    /\ db_index = [type_decls |-> <<>>, strict_array_index |-> FALSE]
    /\ index_query = [asked |-> FALSE]
    /\ index_result = [asked |-> FALSE]

LuaIdle ==
    /\ type_cache = <<>>
    /\ unresolves = <<>>
    /\ member_index = [owners |-> {}, members |-> {}]
    /\ operator_index = <<>>
    /\ lua_stat = <<>>
    /\ emmyrc = [runtime |-> [class_default_call |-> [function_name |-> ""]]]

LoadIdle ==
    /\ config_load = [asked |-> FALSE]
    /\ file_load = [asked |-> FALSE]

FindIdle == member_query = [asked |-> FALSE]

InitWM == WMIdle /\ AnalyzeIdle /\ InferIdle /\ LuaIdle /\ LoadIdle /\ FindIdle

NextWM ==
    \/ reindex_workspace
    \/ add_update_emmyrc_task
    \/ extend_reindex_delay
    \/ \E t \in TaskIds : SleepExpire(t)
    \/ \E t \in TaskIds : WaitCancelled(t)
    \/ \E t \in TaskIds : TaskCheck(t)
    \/ \E t \in TaskIds : TaskAcquire(t)
    \/ \E t \in TaskIds : TaskCleanup(t)
    \/ \E t \in TaskIds : ReindexFile(t)
    \/ \E t \in TaskIds : TaskDiagnostic(t)
    \/ \E t \in TaskIds : InitAnalysisBegin(t)
    \/ \E t \in TaskIds : InitAnalysisEnd(t)
    \/ \E t \in TaskIds : TakeToken(t)
    \/ ReadBegin
    \/ ReadEnd

SpecWM == InitWM /\ [][NextWM]_vars

(***************************************************************************)
(* Claims about the workspace manager                                      *)
(***************************************************************************)
\* The task has left wait_for_reindex and passed the is_cancelled check.
PastCheck(t) ==
    tasks[t].pc \in {"acquire", "cleanup", "reindex", "init", "take", "finished"}

\* The task has not begun cleanup / reindex / init_analysis.
NotStarted == {"sleeping", "check", "acquire"}

\* C1: once a later request has replaced the stored token, a task of an
\* earlier request that has not yet started its re-index never starts it
\* (it can only keep waiting or return): no step takes a superseded task
\* from a not-started position into cleanup / reindex / init_analysis.
C1_SupersededNeverRuns ==
    [][\A t \in TaskIds :
          (t < Len(tasks) /\ tasks[t].pc \in NotStarted)
              => tasks'[t].pc \in NotStarted \cup {"returned"}]_vars

\* C2: a task whose token is cancelled before its debounce wait ends (or
\* before its is_cancelled check) only ever returns: it stays cancelled,
\* never holds the write guard and never performs a per-file step.
C2_CancelledInWaitReturns ==
    [][\A t \in TaskIds :
          (tasks[t].cancelled /\ tasks[t].pc \in {"sleeping", "check", "returned"})
              => /\ tasks'[t].cancelled
                 /\ tasks'[t].pc \in {"sleeping", "check", "returned"}
                 /\ writer' # t
                 /\ tasks'[t].files = 0]_vars

\* C2 witness: a task cancelled during its wait has returned while another
\* task went on to re-index.
C2_Witness ==
    \E t \in TaskIds, u \in TaskIds :
        /\ tasks[t].pc = "returned" /\ tasks[t].sleeps = 0 /\ tasks[t].files = 0
        /\ tasks[u].pc = "finished"

\* C3: once the token is cancelled after the debounce wait has ended (the
\* task waits for the write guard or is re-indexing), the task processes no
\* further file.
C3_CancelStopsBeforeNextFile ==
    [][\A t \in TaskIds :
          (tasks[t].cancelled /\ tasks[t].pc \in {"acquire", "cleanup", "reindex"})
              => tasks'[t].files = tasks[t].files]_vars

\* C4: a task that ended its debounce wait uncancelled has slept exactly one
\* delay period if extend_reindex_delay was never called during its wait,
\* and otherwise at least one further full period after the sleep in which
\* the call was made.
C4_DebounceExtensible ==
    \A t \in TaskIds :
        PastCheck(t) =>
            IF tasks[t].ext_at = -1
            THEN tasks[t].sleeps = 1
            ELSE tasks[t].sleeps >= tasks[t].ext_at + 2

\* C5: cleanup and reindex run under one write guard, no reader holds a read
\* guard while the database is between the two steps (or being rebuilt),
\* and at most one task is inside a full-workspace re-index.
C5_SingleWriterSnapshot ==
    /\ readers > 0 => (writer = None /\ db = "indexed")
    /\ \A t \in TaskIds : tasks[t].pc \in {"cleanup", "reindex", "init"} => writer = t
    /\ Cardinality({t \in TaskIds : tasks[t].pc \in {"cleanup", "reindex", "init"}}) <= 1

\* C5 witness: one task is between cleanup and reindex while another task
\* has passed its cancellation check and waits for the write guard.
C5_Witness ==
    \E t \in TaskIds, u \in TaskIds :
        /\ tasks[t].pc = "reindex" /\ tasks[t].files = 0 /\ db = "cleaned"
        /\ tasks[u].pc = "acquire" /\ tasks[u].kind = "reindex"

\* The most recently requested task has not yet passed its is_cancelled
\* check: it is in its debounce wait or about to test the token.
NewestPending ==
    Len(tasks) > 0 /\ tasks[Len(tasks)].pc \in {"sleeping", "check"}

\* C27: while the most recently requested task is pending, update_token
\* holds that task's token (so a later request cancels it and
\* extend_reindex_delay reaches it), and a finishing config-update task
\* changes the slot only when the slot holds its own token.
C27_TokenSlotOwnership ==
    /\ [](NewestPending => update_token = Len(tasks))
    /\ [][\A t \in TaskIds :
              (tasks[t].pc = "take" /\ tasks'[t].pc = "finished"
                   /\ update_token' # update_token)
                  => update_token = t]_vars

\* The workspace manager under fair scheduling: the timer of a task that
\* sleeps fires, and the runtime polls a waiting task whose token has been
\* cancelled. extend_reindex_delay is guarded by MaxResleeps, so set_resleep
\* is called finitely often in every behaviour.
SpecWMFair ==
    /\ SpecWM
    /\ \A t \in 1..MaxRequests :
           /\ WF_vars(t \in TaskIds /\ SleepExpire(t))
           /\ WF_vars(t \in TaskIds /\ WaitCancelled(t))

\* every wait_for_reindex that has begun returns
WaitEnds ==
    \A t \in 1..MaxRequests :
        (t \in TaskIds /\ tasks[t].pc = "sleeping")
            ~> (t \in TaskIds /\ tasks[t].pc # "sleeping")

\* C28: the debounce wait always ends; a task whose token is cancelled
\* while it waits can leave the wait at once through the cancelled branch of
\* the select, whatever its timer does; and no step of such a task
\* consumes a pending re-sleep request.
C28_DebounceWaitEnds ==
    /\ WaitEnds
    /\ [](\A t \in TaskIds :
              (tasks[t].cancelled /\ tasks[t].pc = "sleeping")
                  => ENABLED WaitCancelled(t))
    /\ [][\A t \in TaskIds :
              (tasks[t].cancelled /\ tasks[t].pc = "sleeping" /\ tasks[t].need_re_sleep)
                  => tasks'[t].need_re_sleep]_vars

(***************************************************************************)
(* Analysis pipeline driver: analyze and module_analyze                    *)
(***************************************************************************)
\* WorkspaceId::STD, WorkspaceId::MAIN and WorkspaceId::is_library.
STD == 0

MAIN == 1

is_library(w) == w > 1

is_main(w) == w # STD /\ ~is_library(w)

\* Per file of need_analyzed_files, what the lookups of module_analyze give:
\* no path in the vfs, a path that is not UTF-8, add_module_by_path = None,
\* or add_module_by_path = Some(workspace id).
PathMissing == -3

PathNotUtf8 == -2

NoWorkspace == -1

WorkspaceIdSet == 0..(MaxLibraries + 1)

FileOutcomes == {PathMissing, PathNotUtf8, NoWorkspace} \cup WorkspaceIdSet

HasPath(o) == o \notin {PathMissing, PathNotUtf8}

\* workspace_id.unwrap_or(WorkspaceId::MAIN)
workspace_of(o) == IF o = NoWorkspace THEN MAIN ELSE o

\* file_tree_map[w]: the files of workspace w, in input order.
tree_list_of(files, w) ==
    SelectSeq([i \in 1..Len(files) |-> i],
              LAMBDA i : HasPath(files[i]) /\ workspace_of(files[i]) = w)

file_tree_keys(files) ==
    {workspace_of(files[i]) : i \in {j \in 1..Len(files) : HasPath(files[j])}}

\* The orders in which the HashMap file_tree_map can be iterated once the
\* STD entry has been removed.
IterOrders(files) ==
    IF Len(files) = 1 THEN {<<>>}
    ELSE LET K == file_tree_keys(files) \ {STD}
             n == Cardinality(K)
         IN {q \in [1..n -> K] : \A i, j \in 1..n : i # j => q[i] # q[j]}

Context(files, w) == [ws |-> w, tree_list |-> tree_list_of(files, w)]

module_analyze_NoSort(files, iter) ==
    IF Len(files) = 1
    THEN IF HasPath(files[1])
         THEN <<[ws |-> workspace_of(files[1]), tree_list |-> <<1>>]>>
         ELSE <<>>
    ELSE LET std == IF STD \in file_tree_keys(files)
                    THEN <<Context(files, STD)>> ELSE <<>>
             libs == SelectSeq(iter, is_library)
             mains == SelectSeq(iter, LAMBDA w : ~is_library(w))
         IN std \o [i \in 1..Len(libs) |-> Context(files, libs[i])]
                \o [i \in 1..Len(mains) |-> Context(files, mains[i])]

module_analyze(files, iter) ==
    IF Len(files) = 1
    THEN IF HasPath(files[1])
         THEN <<[ws |-> workspace_of(files[1]), tree_list |-> <<1>>]>>
         ELSE <<>>
    ELSE LET std == IF STD \in file_tree_keys(files)
                    THEN <<Context(files, STD)>> ELSE <<>>
             libs == SelectSeq(iter, is_library)
             mains == SelectSeq(iter, LAMBDA w : ~is_library(w))
             unsorted == std \o [i \in 1..Len(libs) |-> Context(files, libs[i])]
             main_vec == [i \in 1..Len(mains) |-> Context(files, mains[i])]
         IN SortSeq(unsorted, LAMBDA a, b : a.ws < b.ws) \o main_vec

PassOrder_DocFirst == <<"doc", "decl", "flow", "lua", "unresolve">>

\* The run_analysis calls of analyze's second loop, in order.
PassOrder == <<"decl", "doc", "flow", "lua", "unresolve">>

\* analyze: empty input returns at once, else module_analyze builds the contexts.
AnalyzeStart ==
    /\ an_pc = "idle"
    /\ IF need_analyzed_files = <<>>
       THEN /\ an_pc' = "done"
            /\ UNCHANGED <<an_iter, contexts>>
       ELSE \E iter \in IterOrders(need_analyzed_files) :
               /\ an_iter' = iter
               /\ contexts' = module_analyze(need_analyzed_files, iter)
               /\ an_pc' = IF contexts' = <<>> THEN "done" ELSE "kg"
    /\ UNCHANGED <<need_analyzed_files, an_pos, an_log>>
    /\ UNCHANGED notAnalyze

\* First loop of analyze: run_analysis::<KgRequireMarkPipeline> on one context.
KgRequireMark ==
    /\ an_pc = "kg"
    /\ an_log' = Append(an_log, [ctx |-> an_pos[1], pass |-> "kg_require_mark", file |-> 0])
    /\ IF an_pos[1] = Len(contexts)
       THEN an_pc' = "passes" /\ an_pos' = <<1, 1, 1>>
       ELSE an_pc' = "kg" /\ an_pos' = <<an_pos[1] + 1, 1, 1>>
    /\ UNCHANGED <<need_analyzed_files, an_iter, contexts>>
    /\ UNCHANGED notAnalyze

\* Second loop of analyze: the current pass handles the next file of the
\* current context's tree_list; after the last file the next pass starts,
\* after the last pass the next context.
RunPassFile ==
    /\ an_pc = "passes"
    /\ LET c == an_pos[1]
           p == an_pos[2]
           f == an_pos[3]
           tl == contexts[c].tree_list
       IN /\ an_log' = Append(an_log, [ctx |-> c, pass |-> PassOrder[p], file |-> tl[f]])
          /\ IF f < Len(tl)
             THEN an_pc' = "passes" /\ an_pos' = <<c, p, f + 1>>
             ELSE IF p < Len(PassOrder)
             THEN an_pc' = "passes" /\ an_pos' = <<c, p + 1, 1>>
             ELSE IF c < Len(contexts)
             THEN an_pc' = "passes" /\ an_pos' = <<c + 1, 1, 1>>
             ELSE an_pc' = "done" /\ an_pos' = an_pos
    /\ UNCHANGED <<need_analyzed_files, an_iter, contexts>>
    /\ UNCHANGED notAnalyze

InitAnalyze ==
    /\ WMIdle
    /\ InferIdle
    /\ LuaIdle
    /\ LoadIdle
    /\ FindIdle
    /\ need_analyzed_files \in UNION {[1..n -> FileOutcomes] : n \in 0..MaxAnalyzeFiles}
    /\ an_iter = <<>>
    /\ contexts = <<>>
    /\ an_pc = "idle"
    /\ an_pos = <<1, 1, 1>>
    /\ an_log = <<>>

NextAnalyze ==
    \/ AnalyzeStart
    \/ KgRequireMark
    \/ RunPassFile

SpecAnalyze == InitAnalyze /\ [][NextAnalyze]_vars

(***************************************************************************)
(* Claims about the pipeline driver                                        *)
(***************************************************************************)
FivePasses == {"decl", "doc", "flow", "lua", "unresolve"}

PassRank(p) ==
    CASE p = "decl" -> 1 [] p = "doc" -> 2 [] p = "flow" -> 3
      [] p = "lua" -> 4 [] p = "unresolve" -> 5 [] OTHER -> 0

FilesOfContext(c) == {contexts[c].tree_list[i] : i \in 1..Len(contexts[c].tree_list)}

RanBefore(j, c, p, f) ==
    \E i \in 1..(j - 1) : an_log[i] = [ctx |-> c, pass |-> p, file |-> f]

\* C6: for every context the five passes run in the order decl, doc, flow,
\* lua (type inference), unresolve: a pass step of a context happens only
\* after the preceding pass has handled every file of that context, and only
\* after all five passes have handled every file of the preceding context;
\* no step of an earlier pass or an earlier context follows it.
C6_PassOrder ==
    \A j \in 1..Len(an_log) :
        LET e == an_log[j] IN
        e.pass \in FivePasses =>
            /\ \A q \in FivePasses : \A f \in FilesOfContext(e.ctx) :
                  PassRank(q) < PassRank(e.pass) => RanBefore(j, e.ctx, q, f)
            /\ \A c \in 1..(e.ctx - 1) : \A q \in FivePasses : \A f \in FilesOfContext(c) :
                  RanBefore(j, c, q, f)
            /\ \A i \in 1..(j - 1) :
                  an_log[i].pass \in FivePasses =>
                      \/ an_log[i].ctx < e.ctx
                      \/ an_log[i].ctx = e.ctx /\ PassRank(an_log[i].pass) <= PassRank(e.pass)

\* C6 witness: a finished analyze over two contexts, one holding two files.
C6_Witness ==
    /\ an_pc = "done"
    /\ Len(contexts) >= 2
    /\ \E c \in 1..Len(contexts) : Len(contexts[c].tree_list) >= 2
    /\ Len(an_log) > Len(contexts)

\* C7: module_analyze returns std first, then the library contexts in
\* ascending workspace id, then the main contexts.
C7_ContextOrder ==
    \A i, j \in 1..Len(contexts) :
        i < j =>
            LET a == contexts[i].ws
                b == contexts[j].ws
            IN /\ b # STD
               /\ is_main(a) => is_main(b)
               /\ (is_library(a) /\ is_library(b)) => a < b

\* C7 witness: std, two libraries met in descending order by the map
\* iteration; and the map iteration met main before a library.
C7_Witness ==
    /\ Len(contexts) = 3
    /\ contexts[1].ws = STD
    /\ Len(an_iter) = 2 /\ is_library(an_iter[1]) /\ is_library(an_iter[2])
    /\ an_iter[1] > an_iter[2]

(***************************************************************************)
(* Member resolution (semantic/infer/infer_index.rs)                       *)
(***************************************************************************)
MaxArrayLen == 3      \* largest declared array length
MaxTupleLen == 2      \* most elements of a tuple type
MaxSupers == 2        \* most super types declared by one class
MaxUnionArms == 3     \* most arms of a union prefix

TypeIds == {"A", "B"}

\* LuaType (Any is spelled LuaAny: the TLC module defines Any)
LuaAny == [tag |-> "Any"]

Unknown == [tag |-> "Unknown"]

Nil == [tag |-> "Nil"]

Table == [tag |-> "Table"]

Integer == [tag |-> "Integer"]

Number == [tag |-> "Number"]

String == [tag |-> "String"]

IntegerConst(i) == [tag |-> "IntegerConst", i |-> i]

StringConst(s) == [tag |-> "StringConst", s |-> s]

Ref(id) == [tag |-> "Ref", id |-> id]

Def(id) == [tag |-> "Def", id |-> id]

Union(types) == [tag |-> "Union", types |-> types]

Intersection(types) == [tag |-> "Intersection", types |-> types]

Generic(base, params) == [tag |-> "Generic", base |-> base, params |-> params]

TplRef(idx) == [tag |-> "TplRef", idx |-> idx]

Tuple(types) == [tag |-> "Tuple", types |-> types]

\* LuaArrayLen
LenNone == [kind |-> "None"]

Max(n) == [kind |-> "Max", n |-> n]

Array(base, len) == [tag |-> "Array", base |-> base, len |-> len]

\* LuaIndexKey; an Expr key carries the type infer_expr gives it, whether
\* check_iter_var_range recognises it as the bounded loop variable, and
\* whether the expression is the name of a function parameter.
KeyMissing == [kind |-> "Missing"]

KeyName(name) == [kind |-> "Name", name |-> name]

KeyInteger(i) == [kind |-> "Integer", i |-> i]

KeyExpr(ty, in_range) ==
    [kind |-> "Expr", ty |-> ty, in_range |-> in_range, is_param |-> FALSE]

KeyParam(ty) == [kind |-> "Expr", ty |-> ty, in_range |-> FALSE, is_param |-> TRUE]

\* LuaIndexMemberExpr
IndexExpr(key) == [form |-> "IndexExpr", key |-> key]

TableField(key) == [form |-> "TableField", key |-> key]

\* InferResult. NoReturn is not a value of the program: it marks a call
\* that never returns because it re-enters itself with the same arguments.
Ok(ty) == [ok |-> TRUE, ty |-> ty]

Err(reason) == [ok |-> FALSE, why |-> reason]

FieldNotFound == Err("FieldNotFound")

ReasonNone == Err("None")

NoReturn == Err("NoReturn")

is_integer(ty) == ty.tag \in {"Integer", "IntegerConst"}

\* TypeOps::Union.apply
UnionArms(ty) == IF ty.tag = "Union" THEN ty.types ELSE <<ty>>

Subsumes(a, b) ==
    \/ a = b
    \/ a = Integer /\ b.tag = "IntegerConst"
    \/ a = Number /\ b.tag \in {"Integer", "IntegerConst"}
    \/ a = String /\ b.tag = "StringConst"

RECURSIVE CollapseArms(_, _)
CollapseArms(done, todo) ==
    IF todo = <<>> THEN done
    ELSE LET t == Head(todo)
         IN IF \E i \in 1..Len(done) : Subsumes(done[i], t)
            THEN CollapseArms(done, Tail(todo))
            ELSE CollapseArms(SelectSeq(done, LAMBDA a : ~Subsumes(t, a)) \o <<t>>,
                              Tail(todo))

UnionApply(a, b) ==
    IF a = LuaAny \/ b = LuaAny THEN LuaAny
    ELSE IF a = Unknown THEN b
    ELSE IF b = Unknown THEN a
    ELSE LET arms == CollapseArms(<<>>, UnionArms(a) \o UnionArms(b))
         IN IF Len(arms) = 1 THEN arms[1] ELSE Union(arms)

\* LuaType::from_vec
RECURSIVE from_vec(_)
from_vec(types) ==
    IF types = <<>> THEN Unknown
    ELSE UnionApply(from_vec(SubSeq(types, 1, Len(types) - 1)), types[Len(types)])

\* instantiate_type_generic with TypeSubstitutor::from_type_array(params)
RECURSIVE instantiate_type_generic(_, _)
instantiate_type_generic(ty, params) ==
    CASE ty.tag = "TplRef" ->
            IF ty.idx \in 1..Len(params) THEN params[ty.idx] ELSE ty
      [] ty.tag \in {"Union", "Intersection"} ->
            [ty EXCEPT !.types = [i \in 1..Len(ty.types) |->
                                    instantiate_type_generic(ty.types[i], params)]]
      [] ty.tag = "Generic" ->
            Generic(instantiate_type_generic(ty.base, params),
                    [i \in 1..Len(ty.params) |->
                        instantiate_type_generic(ty.params[i], params)])
      [] ty.tag = "Array" ->
            Array(instantiate_type_generic(ty.base, params), ty.len)
      [] OTHER -> ty

\* check_type_compact(expected, actual).is_ok()
RECURSIVE check_type_compact(_, _)
check_type_compact(expected, actual) ==
    IF actual.tag = "Union"
    THEN \A i \in 1..Len(actual.types) : check_type_compact(expected, actual.types[i])
    ELSE expected = LuaAny \/ Subsumes(expected, actual)

\* LuaMemberKey
MemberName(name) == [kind |-> "Name", name |-> name]

MemberInteger(i) == [kind |-> "Integer", i |-> i]

MemberExprType(ty) == [kind |-> "ExprType", ty |-> ty]

\* LuaMemberKey::from_index_key
from_index_key(key) ==
    CASE key.kind = "Name" -> MemberName(key.name)
      [] key.kind = "Integer" -> MemberInteger(key.i)
      [] key.kind = "Expr" /\ key.ty.tag = "StringConst" -> MemberName(key.ty.s)
      [] key.kind = "Expr" /\ key.ty.tag = "IntegerConst" -> MemberInteger(key.ty.i)
      [] OTHER -> MemberExprType(key.ty)

\* LuaTypeDecl: kind is "class", "enum", "enum_key" (an enum declared with
\* the key attribute), "alias" or "undeclared" (get_type_decl gives None);
\* supers and operators are sequences, origin holds at most one type,
\* members is the set of the member index entries owned by the type.
TypeDecl(kind, supers, origin, members, operators) ==
    [kind |-> kind, supers |-> supers, origin |-> origin,
     members |-> members, operators |-> operators]

is_class(type_decl) == type_decl.kind = "class"

is_enum(type_decl) == type_decl.kind \in {"enum", "enum_key"}

\* LuaMemberIndex::get_member_item(owner, key) followed by resolve_type
get_member_item(type_decl, key) == {m \in type_decl.members : m.key = key}

\* InferGuard::check: fails on an id already recorded, records it otherwise
InferGuard_check(infer_guard, id) ==
    [ok |-> id \notin infer_guard, guard |-> infer_guard \cup {id}]

\* What a callee taking `&mut InferGuard` hands back: its result and the guard
Returned(res, guard) == [res |-> res, guard |-> guard]

infer_array_member_LowerBoundZero(dbi, array_type, index_member_expr) ==
    LET key == index_member_expr.key
        base_type == array_type.base
        len == array_type.len
    IN IF key = KeyMissing THEN ReasonNone
       ELSE IF index_member_expr.form = "TableField" THEN Ok(base_type)
       ELSE CASE key.kind = "Integer" ->
                  IF ~dbi.strict_array_index THEN Ok(base_type)
                  ELSE IF len.kind = "Max" /\ key.i >= 0 /\ key.i <= len.n
                       THEN Ok(base_type)
                       ELSE IF base_type \in {LuaAny, Unknown}
                            THEN Ok(base_type)
                            ELSE Ok(UnionApply(base_type, Nil))
              [] key.kind = "Expr" ->
                  IF is_integer(key.ty)
                  THEN LET known == IF len.kind = "Max" /\ key.ty.tag = "IntegerConst"
                                    THEN key.ty.i > 0 /\ key.ty.i <= len.n
                                    ELSE key.in_range
                       IN IF known THEN Ok(base_type)
                          ELSE IF base_type \in {LuaAny, Unknown}
                               THEN Ok(base_type)
                               ELSE IF dbi.strict_array_index
                                    THEN Ok(UnionApply(base_type, Nil))
                                    ELSE Ok(base_type)
                  ELSE FieldNotFound
              [] OTHER -> FieldNotFound

infer_array_member(dbi, array_type, index_member_expr) ==
    LET key == index_member_expr.key
        base_type == array_type.base
        len == array_type.len
    IN IF key = KeyMissing THEN ReasonNone
       ELSE IF index_member_expr.form = "TableField" THEN Ok(base_type)
       ELSE CASE key.kind = "Integer" ->
                  IF ~dbi.strict_array_index THEN Ok(base_type)
                  ELSE IF len.kind = "Max" /\ key.i > 0 /\ key.i <= len.n
                       THEN Ok(base_type)
                       ELSE IF base_type \in {LuaAny, Unknown}
                            THEN Ok(base_type)
                            ELSE Ok(UnionApply(base_type, Nil))
              [] key.kind = "Expr" ->
                  IF is_integer(key.ty)
                  THEN LET known == IF len.kind = "Max" /\ key.ty.tag = "IntegerConst"
                                    THEN key.ty.i > 0 /\ key.ty.i <= len.n
                                    ELSE key.in_range
                       IN IF known THEN Ok(base_type)
                          ELSE IF base_type \in {LuaAny, Unknown}
                               THEN Ok(base_type)
                               ELSE IF dbi.strict_array_index
                                    THEN Ok(UnionApply(base_type, Nil))
                                    ELSE Ok(base_type)
                  ELSE FieldNotFound
              [] OTHER -> FieldNotFound

\* expr_to_member_key on the type of an expression key
RECURSIVE expr_to_member_key(_, _, _)
expr_to_member_key(dbi, expr_type, ty) ==
    CASE ty.tag = "StringConst" -> {MemberName(ty.s)}
      [] ty.tag = "IntegerConst" -> {MemberInteger(ty.i)}
      [] ty.tag = "Union" ->
            UNION {expr_to_member_key(dbi, expr_type, ty.types[i]) : i \in 1..Len(ty.types)}
      [] ty.tag = "Tuple" -> {MemberExprType(expr_type)}
      [] ty.tag = "Ref" ->
            IF is_enum(dbi.type_decls[ty.id]) \/ dbi.type_decls[ty.id].kind = "alias"
            THEN {MemberExprType(ty)} ELSE {}
      [] OTHER -> {}

\* get_all_member_key: the keys an enum named by origin_type (directly or
\* as an arm of a union) offers: its member keys if it is a key enum, the
\* keys spelled by its members' constant types otherwise
get_all_member_key_of(dbi, id) ==
    LET type_decl == dbi.type_decls[id]
    IN IF ~is_enum(type_decl) THEN {}
       ELSE IF type_decl.kind = "enum_key" THEN {m.key : m \in type_decl.members}
       ELSE UNION {CASE m.ty.tag = "StringConst" -> {MemberName(m.ty.s)}
                     [] m.ty.tag = "IntegerConst" -> {MemberInteger(m.ty.i)}
                     [] OTHER -> {} : m \in type_decl.members}

get_all_member_key(dbi, origin_type) ==
    CASE origin_type.tag = "Ref" -> get_all_member_key_of(dbi, origin_type.id)
      [] origin_type.tag = "Union" ->
            UNION {IF origin_type.types[i].tag = "Ref"
                   THEN get_all_member_key_of(dbi, origin_type.types[i].id)
                   ELSE {} : i \in 1..Len(origin_type.types)}
      [] OTHER -> {}

\* get_expr_key_members: the types of the owner's members under the keys of
\* the enum (or alias of one) that types the key expression; {} for None
get_expr_key_members(dbi, key, owner_decl) ==
    IF key.kind # "ExprType" \/ key.ty.tag # "Ref" THEN {}
    ELSE LET index_type_decl == dbi.type_decls[key.ty.id]
             origin_type == IF index_type_decl.kind = "alias"
                            THEN index_type_decl.origin ELSE <<key.ty>>
         IN IF index_type_decl.kind = "undeclared" \/ origin_type = <<>> THEN {}
            ELSE {m.ty : m \in {n \in owner_decl.members :
                                  n.key \in get_all_member_key(dbi, origin_type[1])}}

\* enum_variable_is_param: Some when the prefix is an enum and the key is a
\* parameter whose type is that enum
enum_variable_is_param(dbi, index_expr, prefix_type) ==
    /\ is_enum(dbi.type_decls[prefix_type.id])
    /\ index_expr.key.kind = "Expr"
    /\ index_expr.key.is_param
    /\ index_expr.key.ty = prefix_type

\* a sequence holding the elements of a set, for LuaType::from_vec
RECURSIVE SetToSeq(_)
SetToSeq(set) ==
    IF set = {} THEN <<>>
    ELSE LET x == CHOOSE y \in set : TRUE IN <<x>> \o SetToSeq(set \ {x})

\* The lookups below take one more argument than their source: `chain`, the
\* set of <<function, prefix type, guard>> calls on the current call stack.
\* The functions are deterministic, so a call that re-enters with a triple
\* already on the stack recurses forever: its result is NoReturn, and so is
\* the result of every caller.
RECURSIVE infer_member_by_member_key(_, _, _, _, _)
RECURSIVE infer_member_by_operator(_, _, _, _, _)

RECURSIVE infer_custom_type_member_supers_RightToLeft(_, _, _, _, _, _)
infer_custom_type_member_supers_RightToLeft(dbi, super_types, i, index_expr, infer_guard, chain) ==
    IF i > Len(super_types) THEN Returned(FieldNotFound, infer_guard)
    ELSE LET result == infer_member_by_member_key(
                           dbi, super_types[Len(super_types) + 1 - i], index_expr,
                           infer_guard, chain)
         IN IF result.res.ok \/ result.res # FieldNotFound THEN result
            ELSE infer_custom_type_member_supers_RightToLeft(
                     dbi, super_types, i + 1, index_expr, result.guard, chain)

\* infer_custom_type_member: the loop over the super types
RECURSIVE infer_custom_type_member_supers(_, _, _, _, _, _)
infer_custom_type_member_supers(dbi, super_types, i, index_expr, infer_guard, chain) ==
    IF i > Len(super_types) THEN Returned(FieldNotFound, infer_guard)
    ELSE LET result == infer_member_by_member_key(dbi, super_types[i], index_expr,
                                                  infer_guard, chain)
         IN IF result.res.ok \/ result.res # FieldNotFound THEN result
            ELSE infer_custom_type_member_supers(dbi, super_types, i + 1, index_expr,
                                                 result.guard, chain)

infer_custom_type_member(dbi, prefix_type_id, index_expr, infer_guard, chain) ==
    LET checked == InferGuard_check(infer_guard, prefix_type_id)
        guard == checked.guard
        type_decl == dbi.type_decls[prefix_type_id]
    IN IF ~checked.ok THEN Returned(FieldNotFound, infer_guard)
       ELSE IF type_decl.kind = "undeclared" THEN Returned(ReasonNone, guard)
       ELSE IF type_decl.kind = "alias"
            THEN IF type_decl.origin # <<>>
                 THEN infer_member_by_member_key(dbi, type_decl.origin[1], index_expr,
                                                 guard, chain)
                 ELSE Returned(FieldNotFound, guard)
       ELSE IF index_expr.form = "IndexExpr"
               /\ enum_variable_is_param(dbi, index_expr, Ref(prefix_type_id))
            THEN Returned(ReasonNone, guard)
       ELSE IF index_expr.key = KeyMissing THEN Returned(ReasonNone, guard)
       ELSE LET index_key == index_expr.key
                member_item == get_member_item(type_decl, from_index_key(index_key))
            IN IF member_item # {}
               THEN Returned(Ok((CHOOSE m \in member_item : TRUE).ty), guard)
               ELSE LET sup == IF is_class(type_decl)
                               THEN infer_custom_type_member_supers(
                                        dbi, type_decl.supers, 1, index_expr, guard, chain)
                               ELSE Returned(FieldNotFound, guard)
                        keys == IF index_key.kind = "Expr"
                                THEN expr_to_member_key(dbi, index_key.ty, index_key.ty)
                                ELSE {}
                        result_types ==
                            UNION {IF get_expr_key_members(dbi, key, type_decl) # {}
                                   THEN {from_vec(SetToSeq(
                                            get_expr_key_members(dbi, key, type_decl)))}
                                   ELSE {m.ty : m \in get_member_item(type_decl, key)}
                                   : key \in keys}
                    IN IF sup.res.ok \/ sup.res # FieldNotFound THEN sup
                       ELSE IF result_types # {}
                            THEN Returned(Ok(from_vec(SetToSeq(result_types))), sup.guard)
                            ELSE Returned(FieldNotFound, sup.guard)

\* infer_tuple_member: tuple_type.get_type(index) for the 1-based key i
tuple_get_type(tuple_type, i) ==
    LET index == IF i > 0 THEN i - 1 ELSE 0
    IN IF index + 1 <= Len(tuple_type.types)
       THEN Ok(tuple_type.types[index + 1]) ELSE FieldNotFound

\* infer_tuple_member: the loop uniting the element types into `result`
RECURSIVE infer_tuple_member_union(_, _, _)
infer_tuple_member_union(types, i, result) ==
    IF i > Len(types) THEN result
    ELSE infer_tuple_member_union(types, i + 1, UnionApply(result, types[i]))

infer_tuple_member_NoNil(dbi, tuple_type, index_expr) ==
    LET index_key == index_expr.key
        key == from_index_key(index_key)
    IN IF index_key = KeyMissing THEN ReasonNone
       ELSE CASE key.kind = "Integer" -> tuple_get_type(tuple_type, key.i)
              [] key.kind = "ExprType" /\ key.ty.tag = "IntegerConst" ->
                    tuple_get_type(tuple_type, key.ty.i)
              [] key.kind = "ExprType" /\ key.ty = Integer ->
                    Ok(infer_tuple_member_union(tuple_type.types, 1, Unknown))
              [] OTHER -> FieldNotFound

infer_tuple_member(dbi, tuple_type, index_expr) ==
    LET index_key == index_expr.key
        key == from_index_key(index_key)
    IN IF index_key = KeyMissing THEN ReasonNone
       ELSE CASE key.kind = "Integer" -> tuple_get_type(tuple_type, key.i)
              [] key.kind = "ExprType" /\ key.ty.tag = "IntegerConst" ->
                    tuple_get_type(tuple_type, key.ty.i)
              [] key.kind = "ExprType" /\ key.ty = Integer ->
                    Ok(UnionApply(infer_tuple_member_union(tuple_type.types, 1, Unknown),
                                  Nil))
              [] OTHER -> FieldNotFound

RECURSIVE infer_union_member_arms_KeepNil(_, _, _, _, _)
infer_union_member_arms_KeepNil(dbi, types, i, index_expr, chain) ==
    IF i > Len(types) THEN Ok(<<>>)
    ELSE LET result == infer_member_by_member_key(dbi, types[i], index_expr,
                                                  {}, chain).res
             rest == infer_union_member_arms_KeepNil(dbi, types, i + 1, index_expr, chain)
         IN IF result = NoReturn \/ rest = NoReturn THEN NoReturn
            ELSE IF result.ok
                 THEN Ok(<<result.ty>> \o rest.ty)
                 ELSE rest

\* infer_union_member: the loop; `types` collects member_types
RECURSIVE infer_union_member_arms(_, _, _, _, _)
infer_union_member_arms(dbi, types, i, index_expr, chain) ==
    IF i > Len(types) THEN Ok(<<>>)
    ELSE LET result == infer_member_by_member_key(dbi, types[i], index_expr,
                                                  {}, chain).res
             rest == infer_union_member_arms(dbi, types, i + 1, index_expr, chain)
         IN IF result = NoReturn \/ rest = NoReturn THEN NoReturn
            ELSE IF result.ok /\ result.ty # Nil
                 THEN Ok(<<result.ty>> \o rest.ty)
                 ELSE rest

infer_union_member(dbi, union_type, index_expr, chain) ==
    LET member_types == infer_union_member_arms(dbi, union_type.types, 1,
                                                index_expr, chain)
    IN IF member_types = NoReturn THEN NoReturn
       ELSE Ok(from_vec(member_types.ty))

RECURSIVE infer_intersection_member_arms(_, _, _, _, _)
infer_intersection_member_arms(dbi, types, i, index_expr, chain) ==
    IF i > Len(types) THEN FieldNotFound
    ELSE LET result == infer_member_by_member_key(dbi, types[i], index_expr,
                                                  {}, chain).res
         IN IF result.ok \/ result # FieldNotFound THEN result
            ELSE infer_intersection_member_arms(dbi, types, i + 1, index_expr, chain)

infer_intersection_member(dbi, intersection_type, index_expr, chain) ==
    infer_intersection_member_arms(dbi, intersection_type.types, 1, index_expr, chain)

\* infer_generic_members_from_super_generics: find_map over the super types;
\* an Option, here Ok(ty) for Some(ty) and FieldNotFound for None.
RECURSIVE infer_generic_members_from_supers(_, _, _, _, _, _)
infer_generic_members_from_supers(dbi, super_types, i, substitutor, index_expr, chain) ==
    IF i > Len(super_types) THEN FieldNotFound
    ELSE LET super_type == instantiate_type_generic(super_types[i], substitutor)
             result == infer_member_by_member_key(dbi, super_type, index_expr,
                                                  {}, chain).res
         IN IF result.ok \/ result = NoReturn THEN result
            ELSE infer_generic_members_from_supers(dbi, super_types, i + 1,
                                                   substitutor, index_expr, chain)

infer_generic_members_from_super_generics(dbi, type_decl_id, substitutor, index_expr, chain) ==
    IF ~is_class(dbi.type_decls[type_decl_id]) THEN FieldNotFound
    ELSE infer_generic_members_from_supers(dbi, dbi.type_decls[type_decl_id].supers, 1,
                                           substitutor, index_expr, chain)

infer_generic_member(dbi, generic_type, index_expr, chain) ==
    LET base_type == generic_type.base
        substitutor == generic_type.params
        result == IF base_type.tag = "Ref"
                  THEN infer_generic_members_from_super_generics(
                           dbi, base_type.id, substitutor, index_expr, chain)
                  ELSE FieldNotFound
        member_type == infer_member_by_member_key(dbi, base_type, index_expr,
                                                  {}, chain).res
    IN IF result.ok \/ result = NoReturn THEN result
       ELSE IF ~member_type.ok THEN member_type
       ELSE Ok(instantiate_type_generic(member_type.ty, substitutor))

\* LuaMemberIndex::get_members(LuaMemberOwner::Element(range)): the members a
\* table literal owns, as a set; empty for a literal the index does not know
element_members(dbi, range) ==
    IF range \in DOMAIN dbi.elements THEN dbi.elements[range] ELSE {}

infer_table_member(dbi, inst, index_expr) ==
    IF index_expr.key = KeyMissing THEN ReasonNone
    ELSE LET member_item == get_member_item([members |-> element_members(dbi, inst)],
                                            from_index_key(index_expr.key))
         IN IF member_item = {} THEN FieldNotFound
            ELSE Ok((CHOOSE m \in member_item : TRUE).ty)

infer_instance_member(dbi, inst, index_expr, infer_guard, chain) ==
    LET base_result == infer_member_by_member_key(dbi, inst.base, index_expr,
                                                  infer_guard, chain)
    IN IF base_result.res.ok \/ base_result.res # FieldNotFound THEN base_result
       ELSE Returned(infer_table_member(dbi, inst.range, index_expr), base_result.guard)

infer_member_by_member_key_DefUnhandled(dbi, prefix_type, index_expr, infer_guard, chain) ==
    LET call == <<"infer_member_by_member_key", prefix_type, infer_guard>>
        inner == chain \cup {call}
    IN IF call \in chain THEN Returned(NoReturn, infer_guard)
       ELSE CASE prefix_type.tag \in {"Table", "Any", "Unknown"} ->
                  Returned(Ok(LuaAny), infer_guard)
              [] prefix_type.tag = "Ref" ->
                  infer_custom_type_member(dbi, prefix_type.id, index_expr,
                                           infer_guard, inner)
              [] prefix_type.tag = "Tuple" ->
                  Returned(infer_tuple_member(dbi, prefix_type, index_expr), infer_guard)
              [] prefix_type.tag = "Union" ->
                  Returned(infer_union_member(dbi, prefix_type, index_expr, inner),
                           infer_guard)
              [] prefix_type.tag = "Intersection" ->
                  Returned(infer_intersection_member(dbi, prefix_type, index_expr, inner),
                           infer_guard)
              [] prefix_type.tag = "Generic" ->
                  Returned(infer_generic_member(dbi, prefix_type, index_expr, inner),
                           infer_guard)
              [] prefix_type.tag = "Array" ->
                  Returned(infer_array_member(dbi, prefix_type, index_expr), infer_guard)
              [] prefix_type.tag = "TableConst" ->
                  Returned(infer_table_member(dbi, prefix_type.range, index_expr),
                           infer_guard)
              [] prefix_type.tag = "Instance" ->
                  infer_instance_member(dbi, prefix_type, index_expr, infer_guard, inner)
              [] OTHER -> Returned(FieldNotFound, infer_guard)

infer_member_by_member_key(dbi, prefix_type, index_expr, infer_guard, chain) ==
    LET call == <<"infer_member_by_member_key", prefix_type, infer_guard>>
        inner == chain \cup {call}
    IN IF call \in chain THEN Returned(NoReturn, infer_guard)
       ELSE CASE prefix_type.tag \in {"Table", "Any", "Unknown"} ->
                  Returned(Ok(LuaAny), infer_guard)
              [] prefix_type.tag = "Ref" ->
                  infer_custom_type_member(dbi, prefix_type.id, index_expr,
                                           infer_guard, inner)
              [] prefix_type.tag = "Def" ->
                  infer_custom_type_member(dbi, prefix_type.id, index_expr,
                                           infer_guard, inner)
              [] prefix_type.tag = "Tuple" ->
                  Returned(infer_tuple_member(dbi, prefix_type, index_expr), infer_guard)
              [] prefix_type.tag = "Union" ->
                  Returned(infer_union_member(dbi, prefix_type, index_expr, inner),
                           infer_guard)
              [] prefix_type.tag = "Intersection" ->
                  Returned(infer_intersection_member(dbi, prefix_type, index_expr, inner),
                           infer_guard)
              [] prefix_type.tag = "Generic" ->
                  Returned(infer_generic_member(dbi, prefix_type, index_expr, inner),
                           infer_guard)
              [] prefix_type.tag = "Array" ->
                  Returned(infer_array_member(dbi, prefix_type, index_expr), infer_guard)
              [] prefix_type.tag = "TableConst" ->
                  Returned(infer_table_member(dbi, prefix_type.range, index_expr),
                           infer_guard)
              [] prefix_type.tag = "Instance" ->
                  infer_instance_member(dbi, prefix_type, index_expr, infer_guard, inner)
              [] OTHER -> Returned(FieldNotFound, infer_guard)

\* infer_index_metamethod
infer_index_metamethod(index_key, key_type, value_type) ==
    LET access_key_type ==
            CASE index_key.kind = "Name" -> StringConst(index_key.name)
              [] index_key.kind = "Integer" -> IntegerConst(index_key.i)
              [] OTHER -> index_key.ty
    IN IF check_type_compact(key_type, access_key_type)
       THEN Ok(value_type) ELSE FieldNotFound

\* infer_member_by_index_custom_type: the loop over the __index operators
RECURSIVE infer_member_by_index_custom_type_operators(_, _, _)
infer_member_by_index_custom_type_operators(operators, i, index_key) ==
    IF i > Len(operators) THEN FieldNotFound
    ELSE LET typ == infer_index_metamethod(index_key, operators[i].operand,
                                           operators[i].result)
         IN IF typ.ok THEN typ
            ELSE infer_member_by_index_custom_type_operators(operators, i + 1, index_key)

\* infer_member_by_index_custom_type: the loop over the super types
RECURSIVE infer_member_by_index_custom_type_supers(_, _, _, _, _, _)
infer_member_by_index_custom_type_supers(dbi, super_types, i, index_expr, infer_guard, chain) ==
    IF i > Len(super_types) THEN Returned(FieldNotFound, infer_guard)
    ELSE LET result == infer_member_by_operator(dbi, super_types[i], index_expr,
                                                infer_guard, chain)
         IN IF result.res.ok \/ result.res # FieldNotFound THEN result
            ELSE infer_member_by_index_custom_type_supers(
                     dbi, super_types, i + 1, index_expr, result.guard, chain)

infer_member_by_index_custom_type(dbi, prefix_type_id, index_expr, infer_guard, chain) ==
    LET checked == InferGuard_check(infer_guard, prefix_type_id)
        guard == checked.guard
        type_decl == dbi.type_decls[prefix_type_id]
    IN IF ~checked.ok THEN Returned(FieldNotFound, infer_guard)
       ELSE IF type_decl.kind = "undeclared" THEN Returned(ReasonNone, guard)
       ELSE IF type_decl.kind = "alias"
            THEN IF type_decl.origin # <<>>
                 THEN infer_member_by_operator(dbi, type_decl.origin[1], index_expr,
                                               guard, chain)
                 ELSE Returned(ReasonNone, guard)
       ELSE IF index_expr.key = KeyMissing THEN Returned(ReasonNone, guard)
       ELSE LET typ == infer_member_by_index_custom_type_operators(
                           type_decl.operators, 1, index_expr.key)
            IN IF typ.ok THEN Returned(typ, guard)
               ELSE IF is_class(type_decl)
                    THEN infer_member_by_index_custom_type_supers(
                             dbi, type_decl.supers, 1, index_expr, guard, chain)
                    ELSE Returned(FieldNotFound, guard)

infer_member_by_index_array(dbi, base, index_expr) ==
    LET member_key == index_expr.key
        expression_type == IF dbi.strict_array_index
                           THEN UnionApply(base, Nil) ELSE base
    IN IF member_key = KeyMissing THEN ReasonNone
       ELSE IF member_key.kind = "Integer" THEN Ok(expression_type)
       ELSE IF member_key.kind = "Expr" /\ check_type_compact(Number, member_key.ty)
            THEN Ok(expression_type)
            ELSE FieldNotFound

\* infer_member_by_index_union: the loop; member_type is the accumulator
RECURSIVE infer_member_by_index_union_arms(_, _, _, _, _, _)
infer_member_by_index_union_arms(dbi, types, i, index_expr, member_type, chain) ==
    IF i > Len(types)
    THEN IF member_type = Unknown THEN FieldNotFound ELSE Ok(member_type)
    ELSE LET result == infer_member_by_operator(dbi, types[i], index_expr,
                                                {}, chain).res
         IN IF result.ok
            THEN infer_member_by_index_union_arms(
                     dbi, types, i + 1, index_expr,
                     UnionApply(member_type, result.ty), chain)
            ELSE IF result = FieldNotFound
                 THEN infer_member_by_index_union_arms(dbi, types, i + 1, index_expr,
                                                       member_type, chain)
                 ELSE result

infer_member_by_index_union(dbi, union, index_expr, chain) ==
    infer_member_by_index_union_arms(dbi, union.types, 1, index_expr, Unknown, chain)

RECURSIVE infer_member_by_index_intersection_arms(_, _, _, _, _)
infer_member_by_index_intersection_arms(dbi, types, i, index_expr, chain) ==
    IF i > Len(types) THEN FieldNotFound
    ELSE LET result == infer_member_by_operator(dbi, types[i], index_expr,
                                                {}, chain).res
         IN IF result.ok \/ result # FieldNotFound THEN result
            ELSE infer_member_by_index_intersection_arms(dbi, types, i + 1,
                                                         index_expr, chain)

infer_member_by_index_intersection(dbi, intersection, index_expr, chain) ==
    infer_member_by_index_intersection_arms(dbi, intersection.types, 1,
                                            index_expr, chain)

\* infer_member_by_index_generic: the loop over the __index operators
RECURSIVE infer_member_by_index_generic_operators(_, _, _, _)
infer_member_by_index_generic_operators(operators, i, substitutor, member_key) ==
    IF i > Len(operators) THEN FieldNotFound
    ELSE LET result == infer_index_metamethod(
                           member_key,
                           instantiate_type_generic(operators[i].operand, substitutor),
                           instantiate_type_generic(operators[i].result, substitutor))
         IN IF result.ok /\ result.ty # Nil THEN result
            ELSE infer_member_by_index_generic_operators(operators, i + 1,
                                                         substitutor, member_key)

\* infer_member_by_index_generic: the loop over the super types
RECURSIVE infer_member_by_index_generic_supers(_, _, _, _, _, _)
infer_member_by_index_generic_supers(dbi, supers, i, substitutor, index_expr, chain) ==
    IF i > Len(supers) THEN FieldNotFound
    ELSE LET result == infer_member_by_operator(
                           dbi, instantiate_type_generic(supers[i], substitutor),
                           index_expr, {}, chain).res
         IN IF result.ok \/ result # FieldNotFound THEN result
            ELSE infer_member_by_index_generic_supers(dbi, supers, i + 1, substitutor,
                                                      index_expr, chain)

infer_member_by_index_generic(dbi, generic, index_expr, chain) ==
    LET base_type == generic.base
        substitutor == generic.params
        type_decl == dbi.type_decls[base_type.id]
    IN IF base_type.tag # "Ref" THEN ReasonNone
       ELSE IF type_decl.kind = "undeclared" THEN ReasonNone
       ELSE IF type_decl.kind = "alias"
            THEN IF type_decl.origin # <<>>
                 THEN infer_member_by_operator(
                          dbi, instantiate_type_generic(type_decl.origin[1], substitutor),
                          index_expr, {}, chain).res
                 ELSE ReasonNone
       ELSE IF index_expr.key = KeyMissing THEN ReasonNone
       ELSE LET result == infer_member_by_index_generic_operators(
                              type_decl.operators, 1, substitutor, index_expr.key)
            IN IF result.ok THEN result
               ELSE infer_member_by_index_generic_supers(
                        dbi, type_decl.supers, 1, substitutor, index_expr, chain)

\* The keys of a table literal's members in the order of LuaMemberKey::cmp:
\* integer keys by value, then name keys in the order of MemberNames
MemberNames == <<"x", "y">>

member_key_rank(key) ==
    IF key.kind = "Integer" THEN <<0, key.i>>
    ELSE <<1, CHOOSE i \in 1..Len(MemberNames) : MemberNames[i] = key.name>>

member_key_less(a, b) ==
    LET ra == member_key_rank(a)
        rb == member_key_rank(b)
    IN ra[1] < rb[1] \/ (ra[1] = rb[1] /\ ra[2] < rb[2])

\* members.sort_by(|a, b| a.get_key().cmp(&b.get_key()))
RECURSIVE sort_by_key(_)
sort_by_key(members) ==
    IF members = {} THEN <<>>
    ELSE LET first == CHOOSE m \in members :
                          \A n \in members \ {m} : member_key_less(m.key, n.key)
         IN <<first>> \o sort_by_key(members \ {first})

\* infer_member_by_index_table, no metatable: the loop over the sorted members
RECURSIVE infer_member_by_index_table_members(_, _, _, _)
infer_member_by_index_table_members(members, i, key_type, result_type) ==
    IF i > Len(members) THEN result_type
    ELSE LET member == members[i]
             member_key_type == IF member.key.kind = "Name"
                                THEN StringConst(member.key.name)
                                ELSE IntegerConst(member.key.i)
         IN infer_member_by_index_table_members(
                members, i + 1, key_type,
                IF member.key.kind \in {"Name", "Integer"}
                   /\ check_type_compact(key_type, member_key_type)
                THEN UnionApply(result_type, member.ty)
                ELSE result_type)

\* infer_member_by_index_table: dbi.metatables is the metatable index,
\* dbi.table_operators the __index operators the operator index holds for a
\* LuaOperatorOwner::Table, an owner without operators being outside its
\* domain. Under a metatable the loop body ends with a return or with the
\* `?` on the first operator's answer, so only the first operator is asked.
infer_member_by_index_table(dbi, table_range, index_expr) ==
    IF table_range \in DOMAIN dbi.metatables
    THEN LET meta_owner == dbi.metatables[table_range]
         IN IF meta_owner \notin DOMAIN dbi.table_operators THEN FieldNotFound
            ELSE IF index_expr.key = KeyMissing THEN ReasonNone
            ELSE LET operator_ids == dbi.table_operators[meta_owner]
                 IN IF operator_ids = <<>> THEN FieldNotFound
                    ELSE infer_index_metamethod(index_expr.key, operator_ids[1].operand,
                                                operator_ids[1].result)
    ELSE IF index_expr.key = KeyMissing THEN ReasonNone
    ELSE IF index_expr.key.kind = "Expr" /\ table_range \in DOMAIN dbi.elements
         THEN LET key_type == index_expr.key.ty
                  result_type == infer_member_by_index_table_members(
                                     sort_by_key(dbi.elements[table_range]), 1,
                                     key_type, Unknown)
              IN IF result_type # Unknown
                 THEN IF key_type \in {String, Number, Integer}
                      THEN Ok(UnionApply(result_type, Nil))
                      ELSE Ok(result_type)
                 ELSE FieldNotFound
    ELSE FieldNotFound

infer_member_by_operator(dbi, prefix_type, index_expr, infer_guard, chain) ==
    LET call == <<"infer_member_by_operator", prefix_type, infer_guard>>
        inner == chain \cup {call}
    IN IF call \in chain THEN Returned(NoReturn, infer_guard)
       ELSE CASE prefix_type.tag = "Ref" ->
                  infer_member_by_index_custom_type(dbi, prefix_type.id, index_expr,
                                                    infer_guard, inner)
              [] prefix_type.tag = "Def" ->
                  infer_member_by_index_custom_type(dbi, prefix_type.id, index_expr,
                                                    infer_guard, inner)
              [] prefix_type.tag = "Array" ->
                  Returned(infer_member_by_index_array(dbi, prefix_type.base, index_expr),
                           infer_guard)
              [] prefix_type.tag = "Union" ->
                  Returned(infer_member_by_index_union(dbi, prefix_type, index_expr, inner),
                           infer_guard)
              [] prefix_type.tag = "Intersection" ->
                  Returned(infer_member_by_index_intersection(dbi, prefix_type,
                                                              index_expr, inner),
                           infer_guard)
              [] prefix_type.tag = "Generic" ->
                  Returned(infer_member_by_index_generic(dbi, prefix_type, index_expr, inner),
                           infer_guard)
              [] prefix_type.tag = "TableConst" ->
                  Returned(infer_member_by_index_table(dbi, prefix_type.range, index_expr),
                           infer_guard)
              [] prefix_type.tag = "Instance" ->
                  infer_member_by_operator(dbi, prefix_type.base, index_expr,
                                           infer_guard, inner)
              [] OTHER -> Returned(FieldNotFound, infer_guard)

\* infer_index_expr for a prefix whose type is prefix_type (pass_flow off):
\* the declared-member rule, then the operator rule if no field was found.
\* The answers of both rules are recorded next to the combined one. The
\* lookup reads db_index only, so a behaviour asks once: a second lookup
\* would reach no state that a first one does not.
infer_index_expr(prefix_type, index_expr) ==
    LET member == infer_member_by_member_key(db_index, prefix_type, index_expr,
                                             {}, {}).res
        operator == infer_member_by_operator(db_index, prefix_type, index_expr,
                                             {}, {}).res
    IN /\ ~index_query.asked
       /\ index_query' = [asked |-> TRUE, prefix_type |-> prefix_type,
                          index_expr |-> index_expr]
       /\ index_result' = [asked |-> TRUE, member |-> member, operator |-> operator,
                           expr |-> IF member.ok \/ member # FieldNotFound
                                    THEN member ELSE operator]
       /\ UNCHANGED db_index
       /\ UNCHANGED notInfer

\* Declarations: every way of giving the ids of TypeIds a class (no super or
\* one super, with or without a member x and an __index operator), an alias
\* (with or without an origin) or no declaration at all. Supers and origins
\* name a type id directly or inside a union, intersection or generic.
TypesNaming(id) ==
    {Ref(id), Union(<<Ref(id), Nil>>), Intersection(<<Nil, Ref(id)>>),
     Generic(Ref(id), <<TplRef(1)>>)}

SuperPool == {<<>>} \cup {<<t>> : t \in UNION {TypesNaming(id) : id \in TypeIds}}

MemberPool == {{}} \cup {{[key |-> MemberName("x"), ty |-> t]} : t \in {Integer, TplRef(1)}}

OperatorPool == {<<>>, <<[operand |-> String, result |-> String]>>}

DeclPool ==
    {TypeDecl("class", s, <<>>, m, o) : s \in SuperPool, m \in MemberPool, o \in OperatorPool}
    \cup {TypeDecl("alias", <<>>, s, {}, <<>>) : s \in SuperPool}
    \cup {TypeDecl("undeclared", <<>>, <<>>, {}, <<>>)}

NominalPrefixes ==
    {Ref(id) : id \in TypeIds} \cup {Def(id) : id \in TypeIds}
    \cup {Union(<<Ref("A"), Ref("B")>>), Intersection(<<Ref("A"), Ref("B")>>),
          Generic(Ref("A"), <<Integer>>)}

NominalExprs ==
    {IndexExpr(k) : k \in {KeyName("x"), KeyExpr(StringConst("x"), FALSE),
                           KeyInteger(1), KeyMissing}}

InitMember ==
    /\ WMIdle
    /\ AnalyzeIdle
    /\ LuaIdle
    /\ LoadIdle
    /\ FindIdle
    /\ db_index \in [type_decls : [TypeIds -> DeclPool], strict_array_index : {FALSE}]
    /\ index_query = [asked |-> FALSE]
    /\ index_result = [asked |-> FALSE]

NextMember ==
    \E prefix_type \in NominalPrefixes, index_expr \in NominalExprs :
        infer_index_expr(prefix_type, index_expr)

SpecMember == InitMember /\ [][NextMember]_vars

\* Arrays: element types, lengths and keys around the declared bounds
ArrayPrefixes ==
    {Array(b, l) : b \in {Integer, LuaAny, Unknown},
                   l \in {LenNone} \cup {Max(n) : n \in 0..MaxArrayLen}}

ArrayKeys ==
    {KeyInteger(i) : i \in (-1)..(MaxArrayLen + 2)}
    \cup {KeyExpr(t, r) : t \in {Integer, IntegerConst(1), String}, r \in BOOLEAN}
    \cup {KeyName("x"), KeyMissing}

ArrayExprs == {IndexExpr(k) : k \in ArrayKeys} \cup {TableField(k) : k \in ArrayKeys}

InitArray ==
    /\ WMIdle
    /\ AnalyzeIdle
    /\ LuaIdle
    /\ LoadIdle
    /\ FindIdle
    /\ db_index \in [type_decls : {[id \in TypeIds |->
                                      TypeDecl("undeclared", <<>>, <<>>, {}, <<>>)]},
                     strict_array_index : BOOLEAN]
    /\ index_query = [asked |-> FALSE]
    /\ index_result = [asked |-> FALSE]

NextArray ==
    \E prefix_type \in ArrayPrefixes, index_expr \in ArrayExprs :
        infer_index_expr(prefix_type, index_expr)

SpecArray == InitArray /\ [][NextArray]_vars

(***************************************************************************)
(* Claims about member resolution                                          *)
(***************************************************************************)
\* C8: member resolution terminates on every type graph: both lookup rules
\* return for every prefix type and key, cyclic nominal types included, also
\* when the cycle passes through a Union, Intersection or Generic arm.
C8_MemberResolutionTerminates ==
    index_result.asked =>
        /\ index_result.member # NoReturn
        /\ index_result.operator # NoReturn

\* C9: for every type id T and every key, the lookup on Def(T) gives what the
\* lookup on Ref(T) gives, under the declared-member rule and under the
\* operator rule.
C9_DefSameAsRef ==
    (index_query.asked /\ index_query.prefix_type.tag = "Def") =>
        LET ref == Ref(index_query.prefix_type.id)
        IN /\ index_result.member =
                infer_member_by_member_key(db_index, ref, index_query.index_expr,
                                           {}, {}).res
           /\ index_result.operator =
                infer_member_by_operator(db_index, ref, index_query.index_expr,
                                         {}, {}).res

\* C9 witness: a lookup on Def(T), T a class without the member itself, that
\* finds the member through a super and an operator accepting the key.
C9_Witness ==
    /\ index_query.asked
    /\ index_query.prefix_type = Def("A")
    /\ db_index.type_decls["A"].kind = "class"
    /\ db_index.type_decls["A"].members = {}
    /\ index_result.member = Ok(Integer)
    /\ index_result.operator = Ok(String)

IsArrayIntegerLookup ==
    /\ index_query.asked
    /\ index_query.prefix_type.tag = "Array"
    /\ index_query.index_expr.form = "IndexExpr"
    /\ index_query.index_expr.key.kind = "Integer"

InDeclaredRange ==
    /\ index_query.prefix_type.len.kind = "Max"
    /\ 1 <= index_query.index_expr.key.i
    /\ index_query.index_expr.key.i <= index_query.prefix_type.len.n

TupleElements == {Integer, String, Nil}

TuplePrefixes ==
    {Tuple(ts) : ts \in UNION {[1..n -> TupleElements] : n \in 0..MaxTupleLen}}

TupleKeys ==
    {KeyInteger(i) : i \in (-1)..(MaxTupleLen + 1)}
    \cup {KeyExpr(IntegerConst(i), FALSE) : i \in (-1)..(MaxTupleLen + 1)}
    \cup {KeyExpr(Integer, FALSE), KeyExpr(String, FALSE), KeyName("x"), KeyMissing}

InitTuple ==
    /\ WMIdle
    /\ AnalyzeIdle
    /\ LuaIdle
    /\ LoadIdle
    /\ FindIdle
    /\ db_index \in [type_decls : {[id \in TypeIds |->
                                      TypeDecl("undeclared", <<>>, <<>>, {}, <<>>)]},
                     strict_array_index : BOOLEAN]
    /\ index_query = [asked |-> FALSE]
    /\ index_result = [asked |-> FALSE]

NextTuple ==
    \E prefix_type \in TuplePrefixes, key \in TupleKeys :
        infer_index_expr(prefix_type, IndexExpr(key))

SpecTuple == InitTuple /\ [][NextTuple]_vars

IsTupleLookup == index_query.asked /\ index_query.prefix_type.tag = "Tuple"

\* the integer a tuple lookup is keyed by: a literal key or an expression
\* key of an IntegerConst type
HasIntegerKey ==
    LET key == index_query.index_expr.key
    IN \/ key.kind = "Integer"
       \/ key.kind = "Expr" /\ key.ty.tag = "IntegerConst"

IntegerKey ==
    LET key == index_query.index_expr.key
    IN IF key.kind = "Integer" THEN key.i ELSE key.ty.i

HasIntegerTypedKey ==
    LET key == index_query.index_expr.key
    IN key.kind = "Expr" /\ key.ty = Integer

\* C11: tuple lookup is 1-indexed: for an integer key i the result is
\* element i when 1 <= i <= number of elements and FieldNotFound for every
\* other i (0 and negative i included); for a key of type Integer it is the
\* union of all element types and Nil.
C11_TupleOneIndexed ==
    IsTupleLookup =>
        LET types == index_query.prefix_type.types
        IN /\ HasIntegerKey =>
                index_result.member =
                    IF 1 <= IntegerKey /\ IntegerKey <= Len(types)
                    THEN Ok(types[IntegerKey]) ELSE FieldNotFound
           /\ HasIntegerTypedKey =>
                index_result.member = Ok(UnionApply(from_vec(types), Nil))

\* C12 (as claimed): lookup on the empty tuple yields FieldNotFound for a
\* name key, an integer literal, an IntegerConst-typed expression and an
\* expression of type Integer.
C12_EmptyTupleNotFound ==
    (IsTupleLookup /\ index_query.prefix_type.types = <<>>
        /\ index_query.index_expr.key # KeyMissing) =>
        index_result.member = FieldNotFound

\* C12 (amended): lookup on the empty tuple yields FieldNotFound for a name
\* key, an integer literal and an IntegerConst-typed expression, and Nil for
\* an expression of type Integer.
C12_EmptyTupleAmended ==
    (IsTupleLookup /\ index_query.prefix_type.types = <<>>
        /\ index_query.index_expr.key # KeyMissing) =>
        index_result.member = IF HasIntegerTypedKey THEN Ok(Nil) ELSE FieldNotFound

\* C12 witness: the empty tuple indexed by an expression of type Integer
C12_Witness ==
    /\ IsTupleLookup
    /\ index_query.prefix_type.types = <<>>
    /\ HasIntegerTypedKey
    /\ index_result.member = Ok(Nil)

(***************************************************************************)
(* Classes with several supers                                             *)
(***************************************************************************)
\* Class T with up to MaxSupers supers drawn from S1 and S2; each of T, S1,
\* S2 may declare member x and an __index operator, with a type of its own
\* (T: its type parameter, S1: Integer, S2: String); S1 and S2 may be
\* undeclared or have a super themselves. T is looked up as Ref(T) and as
\* the generic instance T<number>.
OwnType(id) == CASE id = "T" -> TplRef(1) [] id = "S1" -> Integer [] OTHER -> String

OwnMembers(id) == {{}, {[key |-> MemberName("x"), ty |-> OwnType(id)]}}

OwnOperators(id) == {<<>>, <<[operand |-> String, result |-> OwnType(id)]>>}

TSupers == UNION {[1..n -> {Ref("S1"), Ref("S2")}] : n \in 0..MaxSupers}

SDecls(id) ==
    {TypeDecl("class", s, <<>>, m, o) :
        s \in {<<>>, <<Ref("T")>>, <<Ref(IF id = "S1" THEN "S2" ELSE "S1")>>},
        m \in OwnMembers(id), o \in OwnOperators(id)}
    \cup {TypeDecl("undeclared", <<>>, <<>>, {}, <<>>)}

SupersDecls ==
    {[id \in {"T", "S1", "S2"} |->
        CASE id = "T" -> t [] id = "S1" -> s1 [] OTHER -> s2] :
        t \in {TypeDecl("class", s, <<>>, m, o) :
                  s \in TSupers, m \in OwnMembers("T"), o \in OwnOperators("T")},
        s1 \in SDecls("S1"), s2 \in SDecls("S2")}

InitSupers ==
    /\ WMIdle
    /\ AnalyzeIdle
    /\ LuaIdle
    /\ LoadIdle
    /\ FindIdle
    /\ db_index \in [type_decls : SupersDecls, strict_array_index : {FALSE}]
    /\ index_query = [asked |-> FALSE]
    /\ index_result = [asked |-> FALSE]

NextSupers ==
    \E prefix_type \in {Ref("T"), Generic(Ref("T"), <<Number>>)},
       key \in {KeyName("x"), KeyName("y"), KeyInteger(1)} :
        infer_index_expr(prefix_type, IndexExpr(key))

SpecSupers == InitSupers /\ [][NextSupers]_vars

\* what super i of T answers when looked up from T, under each rule
SuperMember(i) ==
    infer_member_by_member_key(db_index, db_index.type_decls["T"].supers[i],
                               index_query.index_expr, {"T"}, {}).res

SuperOperator(i) ==
    infer_member_by_operator(db_index, db_index.type_decls["T"].supers[i],
                             index_query.index_expr, {"T"}, {}).res

\* C13: a member (an __index operator accepting the key) declared on T
\* itself wins over every super; otherwise the answer is that of the first
\* super, left to right, whose lookup succeeds after supers failing with
\* FieldNotFound; if every super fails with FieldNotFound so does T.
C13_SuperTieBreak ==
    (index_query.asked /\ index_query.prefix_type = Ref("T")) =>
        LET decl == db_index.type_decls["T"]
            n == Len(decl.supers)
            own == get_member_item(decl, from_index_key(index_query.index_expr.key))
            ownop == infer_member_by_index_custom_type_operators(
                         decl.operators, 1, index_query.index_expr.key)
        IN /\ own # {} => \E m \in own : index_result.member = Ok(m.ty)
           /\ own = {} =>
                /\ \A i \in 1..n :
                     (SuperMember(i).ok /\ \A j \in 1..(i - 1) : SuperMember(j) = FieldNotFound)
                        => index_result.member = SuperMember(i)
                /\ (\A j \in 1..n : SuperMember(j) = FieldNotFound)
                        => index_result.member = FieldNotFound
           /\ ownop.ok => index_result.operator = ownop
           /\ ~ownop.ok =>
                /\ \A i \in 1..n :
                     (SuperOperator(i).ok
                        /\ \A j \in 1..(i - 1) : SuperOperator(j) = FieldNotFound)
                        => index_result.operator = SuperOperator(i)
                /\ (\A j \in 1..n : SuperOperator(j) = FieldNotFound)
                        => index_result.operator = FieldNotFound

\* C13 witness: T declares neither x nor an operator, both of its two
\* supers declare both, and the first super's answers are returned.
C13_Witness ==
    /\ index_query.asked
    /\ index_query.prefix_type = Ref("T")
    /\ index_query.index_expr.key = KeyName("x")
    /\ db_index.type_decls["T"].members = {}
    /\ db_index.type_decls["T"].operators = <<>>
    /\ db_index.type_decls["T"].supers = <<Ref("S2"), Ref("S1")>>
    /\ db_index.type_decls["S1"].members # {}
    /\ db_index.type_decls["S1"].operators # <<>>
    /\ index_result.member = Ok(String)
    /\ index_result.operator = Ok(String)

\* C14: for Generic(base, params) the key is resolved in the base first and
\* the parameters are substituted into the result: a key declared on the
\* base class itself resolves to the base's member (substituted), also when
\* one of its supers declares the key.
C14_GenericBaseFirst ==
    (index_query.asked /\ index_query.prefix_type.tag = "Generic") =>
        LET generic == index_query.prefix_type
            own == get_member_item(db_index.type_decls[generic.base.id],
                                   from_index_key(index_query.index_expr.key))
        IN own # {} =>
              \E m \in own :
                 index_result.member = Ok(instantiate_type_generic(m.ty, generic.params))

(***************************************************************************)
(* Union prefixes                                                          *)
(***************************************************************************)
\* Arms: two classes (each declared with member x, declared without it, or
\* undeclared), two one-element tuples and Nil.
UnionArmPool == {Ref("S1"), Ref("S2"), Tuple(<<Nil>>), Tuple(<<String>>), Nil}

UnionPrefixes ==
    {Union(ts) : ts \in UNION {[1..n -> UnionArmPool] : n \in 2..MaxUnionArms}}

UnionArmDecls(id) ==
    {TypeDecl("class", <<>>, <<>>, m, <<>>) : m \in OwnMembers(id)}
    \cup {TypeDecl("undeclared", <<>>, <<>>, {}, <<>>)}

InitUnion ==
    /\ WMIdle
    /\ AnalyzeIdle
    /\ LuaIdle
    /\ LoadIdle
    /\ FindIdle
    /\ db_index \in [type_decls : {[id \in {"S1", "S2"} |->
                                      IF id = "S1" THEN s1 ELSE s2] :
                                   s1 \in UnionArmDecls("S1"), s2 \in UnionArmDecls("S2")},
                     strict_array_index : {FALSE}]
    /\ index_query = [asked |-> FALSE]
    /\ index_result = [asked |-> FALSE]

NextUnion ==
    \E prefix_type \in UnionPrefixes, key \in {KeyName("x"), KeyInteger(1)} :
        infer_index_expr(prefix_type, IndexExpr(key))

SpecUnion == InitUnion /\ [][NextUnion]_vars

\* what arm i of the union prefix answers on its own
ArmMember(i) ==
    infer_member_by_member_key(db_index, index_query.prefix_type.types[i],
                               index_query.index_expr, {}, {}).res

\* every arm of type t is an arm of type u or a literal of one
CoveredBy(t, u) ==
    \A i \in 1..Len(UnionArms(t)) :
        \E j \in 1..Len(UnionArms(u)) : Subsumes(UnionArms(u)[j], UnionArms(t)[i])

\* C15: for a Union prefix the declared-member rule succeeds with the union
\* of the answers of exactly those arms whose lookup succeeds with a type
\* other than Nil; failing arms and Nil answers contribute nothing.
C15_UnionOfSuccessfulArms ==
    (index_query.asked /\ index_query.prefix_type.tag = "Union") =>
        LET n == Len(index_query.prefix_type.types)
            counted == {i \in 1..n : ArmMember(i).ok /\ ArmMember(i).ty # Nil}
            answer == index_result.member
        IN /\ answer.ok
           /\ \A i \in counted : CoveredBy(ArmMember(i).ty, answer.ty)
           /\ \A k \in 1..Len(UnionArms(answer.ty)) :
                 UnionArms(answer.ty)[k] # Unknown =>
                    \E i \in counted : CoveredBy(UnionArms(answer.ty)[k], ArmMember(i).ty)
           /\ (counted = {}) <=> (answer.ty = Unknown)

\* C15 witness: three arms, one answering Nil, one answering String and
\* one failing; the result is String.
C15_Witness ==
    /\ index_query.asked
    /\ index_query.prefix_type = Union(<<Tuple(<<Nil>>), Ref("S1"), Tuple(<<String>>)>>)
    /\ index_query.index_expr.key = KeyInteger(1)
    /\ index_result.member = Ok(String)

(***************************************************************************)
(* Enum prefixes                                                           *)
(***************************************************************************)
\* The declaration E is an enum, a key enum or a class, with or without the
\* member x = 1; F is an alias of E, an enum of its own or undeclared.
EnumMembers == {{}, {[key |-> MemberName("x"), ty |-> IntegerConst(1)]}}

EDecls == {TypeDecl(k, <<>>, <<>>, m, <<>>) : k \in {"enum", "enum_key", "class"}, m \in EnumMembers}

FDecls ==
    {TypeDecl("alias", <<>>, <<Ref("E")>>, {}, <<>>),
     TypeDecl("enum", <<>>, <<>>, {[key |-> MemberName("x"), ty |-> IntegerConst(1)]}, <<>>),
     TypeDecl("undeclared", <<>>, <<>>, {}, <<>>)}

\* E.x, E[v] with v a parameter or a local typed E or F, and E[nothing]
EnumKeys ==
    {KeyName("x"), KeyMissing, KeyParam(Ref("E")), KeyParam(Ref("F")),
     KeyExpr(Ref("E"), FALSE), KeyExpr(Ref("F"), FALSE)}

InitEnum ==
    /\ WMIdle
    /\ AnalyzeIdle
    /\ LuaIdle
    /\ LoadIdle
    /\ FindIdle
    /\ db_index \in [type_decls : {[id \in {"E", "F"} |-> IF id = "E" THEN e ELSE f] :
                                   e \in EDecls, f \in FDecls},
                     strict_array_index : {FALSE}]
    /\ index_query = [asked |-> FALSE]
    /\ index_result = [asked |-> FALSE]

NextEnum ==
    \E prefix_type \in {Ref("E"), Def("E"), Ref("F")}, key \in EnumKeys :
        \/ infer_index_expr(prefix_type, IndexExpr(key))
        \/ infer_index_expr(prefix_type, TableField(key))

SpecEnum == InitEnum /\ [][NextEnum]_vars

\* the InferFailReason values on which the analyzer re-queues the item
UnResolveReasons ==
    {"UnResolveDeclType", "UnResolveMemberType", "UnResolveExpr",
     "UnResolveSignatureReturn", "UnResolveOperatorCall"}

\* the query is an index expression on the enum E (or its alias) whose key
\* is a parameter typed E
IsEnumByParameter ==
    /\ index_query.asked
    /\ index_query.index_expr.form = "IndexExpr"
    /\ is_enum(db_index.type_decls["E"])
    /\ \/ index_query.prefix_type \in {Ref("E"), Def("E")}
       \/ /\ index_query.prefix_type = Ref("F")
          /\ db_index.type_decls["F"].kind = "alias"
    /\ enum_variable_is_param(db_index, index_query.index_expr, Ref("E"))

\* C16: when an enum is indexed by a parameter typed as that enum, the
\* lookup answers with an UnResolve reason, so that the item is queued
\* again; it neither picks a member nor answers with a reason on which the
\* caller binds Unknown.
C16_EnumVariableDefers ==
    IsEnumByParameter =>
        /\ ~index_result.expr.ok
        /\ index_result.expr.why \in UnResolveReasons

(***************************************************************************)
(* Statement analysis of the type-inference pass                           *)
(***************************************************************************)
MaxNames == 3        \* names on the left of one local statement
MaxExprs == 2        \* values on the right of one local statement
MaxVariadicLen == 3  \* elements of a multi-value type

\* LuaType::Variadic: a list of element types or one repeated base type
VariadicMulti(types) == [tag |-> "Variadic", kind |-> "Multi", types |-> types]

VariadicBase(ty) == [tag |-> "Variadic", kind |-> "Base", ty |-> ty]

\* VariadicType::get_type(idx), idx counted from 0; <<>> stands for None
variadic_get_type(variadic, idx) ==
    IF variadic.kind = "Base" THEN <<variadic.ty>>
    ELSE IF idx < Len(variadic.types) THEN <<variadic.types[idx + 1]>>
    ELSE <<>>

\* LuaType::Instance(base, range) and LuaType::TableConst(range); a range
\* is InFiled: the file and the place of the table expression in it
InFiled(file_id, value) == [file_id |-> file_id, value |-> value]

Instance(base, range) == [tag |-> "Instance", base |-> base, range |-> range]

TableConst(range) == [tag |-> "TableConst", range |-> range]

\* LuaDeclId::new(file_id, position) and LuaMemberId::new(syntax_id, file_id)
\* as type owners
LuaDeclId(file_id, position) == [kind |-> "Decl", file_id |-> file_id, position |-> position]

LuaMemberId(syntax_id, file_id) == [kind |-> "Member", file_id |-> file_id, syntax_id |-> syntax_id]

\* an expression of the statement: what infer_expr answers for it and
\* whether call_expr_has_effect_table_arg holds of it
ValueExpr(res, effect_table_arg) == [res |-> res, effect_table_arg |-> effect_table_arg]

\* LuaTypeIndex::bind_type: the first binding of an owner is kept
TypeIndex_bind_type(cache, owner, ty) ==
    IF owner \in DOMAIN cache THEN cache
    ELSE [o \in DOMAIN cache \cup {owner} |-> IF o = owner THEN ty ELSE cache[o]]

\* common::bind_type: binds the owner if it has no type yet
bind_type(cache, owner, ty) == TypeIndex_bind_type(cache, owner, ty)

UnResolveDecl(file_id, decl_id, expr, ret_idx) ==
    [kind |-> "UnResolveDecl", file_id |-> file_id, decl_id |-> decl_id,
     expr |-> expr, ret_idx |-> ret_idx]

\* expr and prefix are sequences: <<>> stands for None
UnResolveMember(file_id, member_id, expr, prefix, ret_idx) ==
    [kind |-> "UnResolveMember", file_id |-> file_id, member_id |-> member_id,
     expr |-> expr, prefix |-> prefix, ret_idx |-> ret_idx]

\* AnalyzeContext::add_unresolve
add_unresolve(unres, un_resolve, reason) ==
    Append(unres, [item |-> un_resolve, reason |-> reason])

\* The positions of the names of statement number stat
NamePosition(stat, i) == <<stat, i>>

\* analyze_local_stat, the loop over the names that have a value
\* (i counted from 0); st holds the type cache, the unresolved list and
\* whether a `?` left the function
RECURSIVE analyze_local_stat_values(_, _, _, _, _, _)
analyze_local_stat_values(st, file_id, stat, name_count, expr_list, i) ==
    IF i >= name_count \/ i >= Len(expr_list) THEN st
    ELSE LET expr == expr_list[i + 1]
             decl_id == LuaDeclId(file_id, NamePosition(stat, i))
         IN IF expr.res.ok
            THEN IF expr.res.ty.tag = "Variadic" /\ variadic_get_type(expr.res.ty, 0) = <<>>
                 THEN [st EXCEPT !.returned = TRUE]
                 ELSE LET expr_type == IF expr.res.ty.tag = "Variadic"
                                       THEN variadic_get_type(expr.res.ty, 0)[1]
                                       ELSE expr.res.ty
                      IN IF /\ expr_type.tag = "Instance"
                            /\ expr_type.base = Unknown
                            /\ expr.effect_table_arg
                         THEN analyze_local_stat_values(
                                  [st EXCEPT !.unres = add_unresolve(@,
                                       UnResolveDecl(file_id, decl_id, i + 1, 0), "UnResolveExpr")],
                                  file_id, stat, name_count, expr_list, i + 1)
                         ELSE analyze_local_stat_values(
                                  [st EXCEPT !.cache = bind_type(@, decl_id, expr_type)],
                                  file_id, stat, name_count, expr_list, i + 1)
            ELSE IF expr.res = ReasonNone
            THEN analyze_local_stat_values(
                     [st EXCEPT !.cache = TypeIndex_bind_type(@, decl_id, Nil)],
                     file_id, stat, name_count, expr_list, i + 1)
            ELSE analyze_local_stat_values(
                     [st EXCEPT !.unres = add_unresolve(@,
                          UnResolveDecl(file_id, decl_id, i + 1, 0), expr.res.why)],
                     file_id, stat, name_count, expr_list, i + 1)

\* analyze_local_stat, the names beyond the last value (name_count > expr_count > 0)
RECURSIVE analyze_local_stat_tail(_, _, _, _, _, _)
analyze_local_stat_tail(st, file_id, stat, name_count, expr_list, i) ==
    LET expr_count == Len(expr_list)
        last_expr == expr_list[expr_count]
        decl_id == LuaDeclId(file_id, NamePosition(stat, i))
        ret_type == variadic_get_type(last_expr.res.ty, i - expr_count + 1)
    IN IF i >= name_count THEN st
       ELSE IF last_expr.res.ok
       THEN IF last_expr.res.ty.tag = "Variadic"
            THEN analyze_local_stat_tail(
                     [st EXCEPT !.cache =
                          IF ret_type # <<>> THEN bind_type(@, decl_id, ret_type[1])
                          ELSE TypeIndex_bind_type(@, decl_id, Unknown)],
                     file_id, stat, name_count, expr_list, i + 1)
            ELSE st
       ELSE analyze_local_stat_tail(
                [st EXCEPT !.unres = add_unresolve(@,
                     UnResolveDecl(file_id, decl_id, expr_count, i - expr_count + 1),
                     last_expr.res.why)],
                file_id, stat, name_count, expr_list, i + 1)

\* the names of a statement without values are bound to Nil
RECURSIVE analyze_local_stat_no_values(_, _, _, _, _)
analyze_local_stat_no_values(cache, file_id, stat, name_count, i) ==
    IF i >= name_count THEN cache
    ELSE analyze_local_stat_no_values(
             TypeIndex_bind_type(cache, LuaDeclId(file_id, NamePosition(stat, i)), Nil),
             file_id, stat, name_count, i + 1)

\* analyze_local_stat on `local a_0 .. a_(name_count-1) = expr_list`
analyze_local_stat(file_id, name_count, expr_list) ==
    LET stat == Len(lua_stat) + 1
        st0 == [cache |-> type_cache, unres |-> unresolves, returned |-> FALSE]
        st1 == analyze_local_stat_values(st0, file_id, stat, name_count, expr_list, 0)
        st2 == IF st1.returned \/ name_count <= Len(expr_list) THEN st1
               ELSE analyze_local_stat_tail(st1, file_id, stat, name_count, expr_list,
                                            Len(expr_list))
    IN /\ IF expr_list = <<>>
          THEN /\ type_cache' = analyze_local_stat_no_values(type_cache, file_id, stat,
                                                             name_count, 0)
               /\ unresolves' = unresolves
          ELSE /\ type_cache' = st2.cache
               /\ unresolves' = st2.unres
       /\ lua_stat' = Append(lua_stat, [kind |-> "local", file_id |-> file_id,
                                        name_count |-> name_count, expr_list |-> expr_list])
       /\ UNCHANGED <<member_index, operator_index, emmyrc>>
       /\ UNCHANGED notLua

\* The values of a local statement: single types, multi-values of every
\* length, an instance of a not yet analyzed table (with and without a
\* table argument in the call), and the two kinds of failure
VariadicElements == <<Integer, String, Number, Nil>>

LocalTypes ==
    {Integer, String, VariadicBase(Integer), Instance(Unknown, InFiled(1, 0))}
    \cup {VariadicMulti(SubSeq(VariadicElements, 1, n)) : n \in 0..MaxVariadicLen}

LocalExprs ==
    {ValueExpr(Ok(ty), FALSE) : ty \in LocalTypes}
    \cup {ValueExpr(Ok(Instance(Unknown, InFiled(1, 0))), TRUE),
          ValueExpr(ReasonNone, FALSE), ValueExpr(Err("UnResolveExpr"), FALSE)}

LocalExprLists == UNION {[1..m -> LocalExprs] : m \in 0..MaxExprs}

InitLocal == WMIdle /\ AnalyzeIdle /\ InferIdle /\ LuaIdle /\ LoadIdle /\ FindIdle

\* one local statement per behaviour
NextLocal ==
    /\ lua_stat = <<>>
    /\ \E name_count \in 0..MaxNames, expr_list \in LocalExprLists :
           analyze_local_stat(1, name_count, expr_list)

SpecLocal == InitLocal /\ [][NextLocal]_vars

(***************************************************************************)
(* Assignments and table fields                                            *)
(***************************************************************************)
MaxVars == 2     \* variables on the left of one assignment
MaxValues == 2   \* values on the right of one assignment

\* LuaMemberOwner
Element(range) == [kind |-> "Element", range |-> range]

TypeOwner(id) == [kind |-> "Type", id |-> id]

\* LuaMemberIndex::set_member_owner: the member's current owner is replaced
set_member_owner(index, owner, member_id) ==
    [index EXCEPT !.owners = {e \in @ : e.member_id # member_id}
                              \cup {[member_id |-> member_id, owner |-> owner]}]

\* common::add_member: nothing if the member already has this owner, else
\* the owner is recorded and the member is added to the owner's members
add_member(index, owner, member_id) ==
    IF [member_id |-> member_id, owner |-> owner] \in index.owners THEN index
    ELSE [set_member_owner(index, owner, member_id) EXCEPT
              !.members = @ \cup {[owner |-> owner, member_id |-> member_id]}]

\* a variable on the left: a name, or an index expression with what
\* infer_expr answers for its prefix, whether it has an index key, its
\* path part, and whether the declaration pass made a declaration of it
NameExpr == [kind |-> "NameExpr"]

IndexVar(prefix, has_key, name, is_decl) ==
    [kind |-> "IndexExpr", prefix |-> prefix, has_key |-> has_key, name |-> name,
     is_decl |-> is_decl]

\* a value on the right: or_right holds what infer_expr answers for d when
\* the value is `v or d` with v the variable assigned, else it is <<>>
AssignExpr(res, or_right) == [res |-> res, effect_table_arg |-> FALSE, or_right |-> or_right]

\* get_var_owner
get_var_owner(file_id, var, position) ==
    IF var.kind = "NameExpr" \/ var.is_decl THEN LuaDeclId(file_id, position)
    ELSE LuaMemberId(position, file_id)

\* set_index_expr_owner on the variable at `position`
set_index_expr_owner(st, file_id, var, position) ==
    IF var.kind # "IndexExpr" THEN st
    ELSE IF var.prefix.ok
    THEN LET prefix_type == var.prefix.ty
             member_id == LuaMemberId(position, file_id)
         IN IF ~var.has_key THEN st
            ELSE CASE prefix_type.tag = "TableConst" ->
                        [st EXCEPT !.members = add_member(@, Element(prefix_type.range), member_id)]
                   [] prefix_type.tag = "Def" ->
                        [st EXCEPT !.members = add_member(@, TypeOwner(prefix_type.id), member_id)]
                   [] prefix_type.tag = "Instance" ->
                        [st EXCEPT !.members = add_member(@, Element(prefix_type.range), member_id)]
                   [] prefix_type.tag = "Ref" ->
                        [st EXCEPT !.members = set_member_owner(@, TypeOwner(prefix_type.id), member_id)]
                   [] OTHER -> st
    ELSE IF var.prefix = ReasonNone THEN st
    ELSE [st EXCEPT !.unres = add_unresolve(@,
              UnResolveMember(file_id, LuaMemberId(position, file_id), <<>>, <<"prefix">>, 0),
              var.prefix.why)]

\* assign_merge_type_owner_and_expr_type
assign_merge_type_owner_and_expr_type(st, type_owner, expr_type, idx) ==
    LET ty == IF expr_type.tag = "Variadic"
              THEN IF variadic_get_type(expr_type, idx) # <<>>
                   THEN variadic_get_type(expr_type, idx)[1] ELSE Nil
              ELSE expr_type
    IN [st EXCEPT !.cache = bind_type(@, type_owner, ty)]

\* the unresolved item of a type owner, as analyze_assign_stat and
\* merge_type_owner_and_unresolve_expr build it
unresolve_of_owner(file_id, type_owner, expr, ret_idx) ==
    IF type_owner.kind = "Decl" THEN UnResolveDecl(file_id, type_owner, expr, ret_idx)
    ELSE UnResolveMember(file_id, type_owner, <<expr>>, <<>>, ret_idx)

\* merge_type_owner_and_unresolve_expr
merge_type_owner_and_unresolve_expr(st, file_id, type_owner, expr, idx) ==
    [st EXCEPT !.unres = add_unresolve(@, unresolve_of_owner(file_id, type_owner, expr, idx),
                                       "UnResolveExpr")]

\* analyze_assign_stat, the loop over the values (i counted from 0)
RECURSIVE analyze_assign_stat_values(_, _, _, _, _, _)
analyze_assign_stat_values(st, file_id, stat, var_list, expr_list, i) ==
    IF i >= Len(expr_list) THEN st
    ELSE IF i >= Len(var_list) THEN [st EXCEPT !.returned = TRUE]
    ELSE LET var == var_list[i + 1]
             expr == expr_list[i + 1]
             position == NamePosition(stat, i)
             type_owner == get_var_owner(file_id, var, position)
             st1 == IF type_owner.kind = "Member"
                    THEN set_index_expr_owner(st, file_id, var, position) ELSE st
         IN IF expr.or_right # <<>> /\ expr.or_right[1].ok
            THEN analyze_assign_stat_values(
                     assign_merge_type_owner_and_expr_type(st1, type_owner,
                                                           expr.or_right[1].ty, 0),
                     file_id, stat, var_list, expr_list, i + 1)
            ELSE IF expr.res.ok
            THEN IF expr.res.ty.tag = "Variadic" /\ variadic_get_type(expr.res.ty, 0) = <<>>
                 THEN [st1 EXCEPT !.returned = TRUE]
                 ELSE analyze_assign_stat_values(
                          assign_merge_type_owner_and_expr_type(st1, type_owner,
                              IF expr.res.ty.tag = "Variadic"
                              THEN variadic_get_type(expr.res.ty, 0)[1] ELSE expr.res.ty, 0),
                          file_id, stat, var_list, expr_list, i + 1)
            ELSE IF expr.res = ReasonNone
            THEN analyze_assign_stat_values(
                     assign_merge_type_owner_and_expr_type(st1, type_owner, Unknown, 0),
                     file_id, stat, var_list, expr_list, i + 1)
            ELSE analyze_assign_stat_values(
                     [st1 EXCEPT !.unres = add_unresolve(@,
                          unresolve_of_owner(file_id, type_owner, i + 1, 0), expr.res.why)],
                     file_id, stat, var_list, expr_list, i + 1)

\* analyze_assign_stat, the variables beyond the last value
RECURSIVE analyze_assign_stat_tail(_, _, _, _, _, _)
analyze_assign_stat_tail(st, file_id, stat, var_list, expr_list, i) ==
    LET expr_count == Len(expr_list)
        last_expr == expr_list[expr_count]
        var == var_list[i + 1]
        position == NamePosition(stat, i)
        type_owner == get_var_owner(file_id, var, position)
        st1 == set_index_expr_owner(st, file_id, var, position)
    IN IF i >= Len(var_list) THEN st
       ELSE IF last_expr.res.ok
       THEN IF last_expr.res.ty.tag = "Variadic"
            THEN analyze_assign_stat_tail(
                     assign_merge_type_owner_and_expr_type(st1, type_owner, last_expr.res.ty,
                                                           i - expr_count + 1),
                     file_id, stat, var_list, expr_list, i + 1)
            ELSE st
       ELSE analyze_assign_stat_tail(
                merge_type_owner_and_unresolve_expr(st1, file_id, type_owner, expr_count,
                                                    i - expr_count + 1),
                file_id, stat, var_list, expr_list, i + 1)

\* analyze_assign_stat on `var_list = expr_list`
analyze_assign_stat(file_id, var_list, expr_list) ==
    LET stat == Len(lua_stat) + 1
        st0 == [cache |-> type_cache, unres |-> unresolves, members |-> member_index,
                returned |-> FALSE]
        st1 == analyze_assign_stat_values(st0, file_id, stat, var_list, expr_list, 0)
        st2 == IF st1.returned \/ Len(var_list) <= Len(expr_list) \/ expr_list = <<>>
               THEN st1
               ELSE analyze_assign_stat_tail(st1, file_id, stat, var_list, expr_list,
                                             Len(expr_list))
    IN /\ type_cache' = st2.cache
       /\ unresolves' = st2.unres
       /\ member_index' = st2.members
       /\ lua_stat' = Append(lua_stat, [kind |-> "assign", file_id |-> file_id,
                                        var_list |-> var_list, expr_list |-> expr_list])
       /\ UNCHANGED <<operator_index, emmyrc>>
       /\ UNCHANGED notLua

\* analyze_table_field on the field `k = value_expr` (is_assign_field) or
\* on a field without a value
analyze_table_field(file_id, is_assign_field, value_expr) ==
    LET stat == Len(lua_stat) + 1
        member_id == LuaMemberId(NamePosition(stat, 0), file_id)
        value_type == IF value_expr.res.ok
                      THEN IF value_expr.res.ty.tag = "Def"
                           THEN Ref(value_expr.res.ty.id) ELSE value_expr.res.ty
                      ELSE Unknown
    IN /\ IF ~is_assign_field
          THEN UNCHANGED <<type_cache, unresolves>>
          ELSE IF value_expr.res.ok \/ value_expr.res = ReasonNone
          THEN /\ type_cache' = bind_type(type_cache, member_id, value_type)
               /\ unresolves' = unresolves
          ELSE /\ unresolves' = add_unresolve(unresolves,
                      UnResolveMember(file_id, member_id, <<1>>, <<>>, 0), value_expr.res.why)
               /\ type_cache' = type_cache
       /\ lua_stat' = Append(lua_stat, [kind |-> "field", file_id |-> file_id,
                                        is_assign_field |-> is_assign_field,
                                        expr_list |-> <<value_expr>>])
       /\ UNCHANGED <<member_index, operator_index, emmyrc>>
       /\ UNCHANGED notLua

\* The variables of an assignment: a name, and t.k with t a class
\* definition, a table of another file, or a prefix that is not resolved yet
AssignVars ==
    {NameExpr,
     IndexVar(Ok(Def("T")), TRUE, "k", FALSE),
     IndexVar(Ok(TableConst(InFiled(2, 0))), TRUE, "k", FALSE),
     IndexVar(Err("UnResolveExpr"), TRUE, "k", FALSE)}

\* The values of an assignment: a single type, multi-values, `v or d`, and
\* the two kinds of failure
AssignExprs ==
    {AssignExpr(Ok(Integer), <<>>),
     AssignExpr(Ok(VariadicMulti(<<>>)), <<>>),
     AssignExpr(Ok(VariadicMulti(<<Integer, String>>)), <<>>),
     AssignExpr(ReasonNone, <<>>),
     AssignExpr(Err("UnResolveExpr"), <<>>),
     AssignExpr(Err("UnResolveExpr"), <<Ok(String)>>),
     AssignExpr(Err("UnResolveExpr"), <<Err("UnResolveExpr")>>)}

AssignVarLists == UNION {[1..n -> AssignVars] : n \in 1..MaxVars}

AssignExprLists == UNION {[1..m -> AssignExprs] : m \in 0..MaxValues}

FieldExprs ==
    {ValueExpr(Ok(Integer), FALSE), ValueExpr(Ok(Def("T")), FALSE),
     ValueExpr(ReasonNone, FALSE), ValueExpr(Err("UnResolveExpr"), FALSE),
     ValueExpr(Err("UnResolveDeclType"), FALSE)}

InitStats == WMIdle /\ AnalyzeIdle /\ InferIdle /\ LuaIdle /\ LoadIdle /\ FindIdle

\* one statement per behaviour
NextStats ==
    /\ lua_stat = <<>>
    /\ \/ \E name_count \in 1..MaxNames, expr_list \in LocalExprLists :
              analyze_local_stat(1, name_count, expr_list)
       \/ \E var_list \in AssignVarLists, expr_list \in AssignExprLists :
              analyze_assign_stat(1, var_list, expr_list)
       \/ \E is_assign_field \in BOOLEAN, value_expr \in FieldExprs :
              analyze_table_field(1, is_assign_field, value_expr)

SpecStats == InitStats /\ [][NextStats]_vars

\* the type bound to name i (counted from 0) of statement number stat, as
\* a sequence: <<>> when the name has no binding
BoundType(stat, i) ==
    LET decl_id == LuaDeclId(lua_stat[stat].file_id, NamePosition(stat, i))
    IN IF decl_id \in DOMAIN type_cache THEN <<type_cache[decl_id]>> ELSE <<>>

\* the type a value gives to the name at the same place: itself, or its
\* first element when it is a multi-value; <<>> when there is none
ValueType(expr) ==
    IF ~expr.res.ok THEN <<>>
    ELSE IF expr.res.ty.tag = "Variadic" THEN variadic_get_type(expr.res.ty, 0)
    ELSE <<expr.res.ty>>

\* the value is an instance whose binding analyze_local_stat postpones
IsDeferredInstance(expr) ==
    /\ expr.res.ok
    /\ expr.res.ty.tag = "Instance"
    /\ expr.res.ty.base = Unknown
    /\ expr.effect_table_arg

\* C17: after `local a1..an = e1..em` has been analyzed: with m = 0 every
\* name is bound to Nil; a name that has a value of its own is bound to the
\* value's type (its first element for a multi-value); with n > m a trailing
\* name at index j (from 0) is bound to element j - m + 1 of the last value
\* when that is a multi-value, and to Nil otherwise.
C17_LocalStatArity ==
    (lua_stat # <<>> /\ lua_stat[1].kind = "local") =>
        LET n == lua_stat[1].name_count
            es == lua_stat[1].expr_list
            m == Len(es)
        IN \A j \in 0..(n - 1) :
              /\ m = 0 => BoundType(1, j) = <<Nil>>
              /\ (j < m /\ ValueType(es[j + 1]) # <<>> /\ ~IsDeferredInstance(es[j + 1]))
                     => BoundType(1, j) = ValueType(es[j + 1])
              /\ (m > 0 /\ j >= m /\ es[m].res.ok) =>
                     IF es[m].res.ty.tag = "Variadic"
                     THEN variadic_get_type(es[m].res.ty, j - m + 1) # <<>> =>
                              BoundType(1, j) = variadic_get_type(es[m].res.ty, j - m + 1)
                     ELSE BoundType(1, j) = <<Nil>>

\* the owner an unresolved item is about
Target(item) == IF item.kind = "UnResolveDecl" THEN item.decl_id ELSE item.member_id

\* the places in the unresolved list of the items about an owner
ItemsOf(owner) == {k \in 1..Len(unresolves) : Target(unresolves[k].item) = owner}

Min(a, b) == IF a < b THEN a ELSE b

\* the targets of the first statement that have a value of their own, each
\* with its value
StatTargets ==
    LET stat == lua_stat[1]
        f == stat.file_id
    IN CASE stat.kind = "local" ->
              {[owner |-> LuaDeclId(f, NamePosition(1, j)), expr |-> stat.expr_list[j + 1]] :
                   j \in 0..(Min(stat.name_count, Len(stat.expr_list)) - 1)}
         [] stat.kind = "assign" ->
              {[owner |-> get_var_owner(f, stat.var_list[j + 1], NamePosition(1, j)),
                expr |-> stat.expr_list[j + 1]] :
                   j \in 0..(Min(Len(stat.var_list), Len(stat.expr_list)) - 1)}
         [] stat.kind = "field" ->
              IF stat.is_assign_field
              THEN {[owner |-> LuaMemberId(NamePosition(1, 0), f), expr |-> stat.expr_list[1]]}
              ELSE {}
         [] OTHER -> {}

\* the value is `v or d` and d has a type (the default-assignment pattern)
IsDefaultAssignment(expr) ==
    /\ "or_right" \in DOMAIN expr
    /\ expr.or_right # <<>>
    /\ expr.or_right[1].ok

\* C18: in analyze_local_stat, analyze_assign_stat and analyze_table_field,
\* when inferring a target's value fails with a reason other than None,
\* exactly one unresolved item about the target is in the list, with that
\* reason, and the target has no type; when it fails with None the target
\* is bound to Unknown.
C18_InferenceFailureHandling ==
    lua_stat # <<>> =>
        \A t \in StatTargets :
            (~t.expr.res.ok /\ ~IsDefaultAssignment(t.expr)) =>
                IF t.expr.res = ReasonNone
                THEN t.owner \in DOMAIN type_cache /\ type_cache[t.owner] = Unknown
                ELSE /\ Cardinality(ItemsOf(t.owner)) = 1
                     /\ \A k \in ItemsOf(t.owner) : unresolves[k].reason = t.expr.res.why
                     /\ t.owner \notin DOMAIN type_cache

(***************************************************************************)
(* Members of table expressions across files                               *)
(***************************************************************************)
MaxFiles == 2   \* files of the workspace
MaxStats == 2   \* table expressions and assignments analyzed in one run

\* LuaMemberIndex::add_member: the member is added to the owner's members
\* and the owner becomes its current owner
MemberIndex_add_member(index, owner, member_id) ==
    [set_member_owner(index, owner, member_id) EXCEPT
         !.members = @ \cup {[owner |-> owner, member_id |-> member_id]}]

UnResolveTableField(file_id, table_expr, field) ==
    [kind |-> "UnResolveTableField", file_id |-> file_id, table_expr |-> table_expr,
     field |-> field]

\* LuaTableExpr::is_object: some field of the table has a key
is_object(fields) == \E k \in 1..Len(fields) : fields[k] # "Item"

\* analyze_table_expr, the loop over the fields; a field is "Name" (a
\* static key), "Expr" (an expression key) or "Item" (no key)
RECURSIVE analyze_table_expr_fields(_, _, _, _, _)
analyze_table_expr_fields(st, file_id, stat, fields, k) ==
    IF k > Len(fields) THEN st
    ELSE IF fields[k] = "Item"
    THEN analyze_table_expr_fields(st, file_id, stat, fields, k + 1)
    ELSE IF fields[k] = "Expr"
    THEN analyze_table_expr_fields(
             [st EXCEPT !.unres = add_unresolve(@, UnResolveTableField(file_id, stat, k),
                                                "UnResolveExpr")],
             file_id, stat, fields, k + 1)
    ELSE analyze_table_expr_fields(
             [st EXCEPT !.members = MemberIndex_add_member(@,
                  Element(InFiled(file_id, stat)),
                  LuaMemberId(NamePosition(stat, k), file_id))],
             file_id, stat, fields, k + 1)

\* analyze_table_expr (declaration pass) on a table expression of file_id;
\* its range is the number of the statement
analyze_table_expr(file_id, fields) ==
    LET stat == Len(lua_stat) + 1
        st0 == [unres |-> unresolves, members |-> member_index]
        st1 == IF is_object(fields)
               THEN analyze_table_expr_fields(st0, file_id, stat, fields, 1) ELSE st0
    IN /\ Len(lua_stat) < MaxStats
       /\ unresolves' = st1.unres
       /\ member_index' = st1.members
       /\ lua_stat' = Append(lua_stat, [kind |-> "table", file_id |-> file_id,
                                        range |-> InFiled(file_id, stat), fields |-> fields])
       /\ UNCHANGED <<type_cache, operator_index, emmyrc>>
       /\ UNCHANGED notLua

Files == 1..MaxFiles

TableFields == {<<>>, <<"Item">>, <<"Name">>, <<"Name", "Expr">>}

\* the ranges of the table expressions analyzed so far
TableRanges == {lua_stat[k].range : k \in {j \in 1..Len(lua_stat) : lua_stat[j].kind = "table"}}

\* what the prefix t of `t.k = v` can infer to: a table expression of any
\* file, an instance over one, a class definition or a class reference
MemberPrefixes ==
    {TableConst(range) : range \in TableRanges}
    \cup {Instance(Ref("T"), range) : range \in TableRanges}
    \cup {Def("T"), Ref("T")}

InitMembers == WMIdle /\ AnalyzeIdle /\ InferIdle /\ LuaIdle /\ LoadIdle /\ FindIdle

\* the declaration pass has run on every file before the type-inference
\* pass runs on any
NextMembers ==
    \/ /\ \A k \in 1..Len(lua_stat) : lua_stat[k].kind = "table"
       /\ \E file_id \in Files, fields \in TableFields : analyze_table_expr(file_id, fields)
    \/ /\ Len(lua_stat) < MaxStats
       /\ \E file_id \in Files, prefix_type \in MemberPrefixes :
              analyze_assign_stat(file_id, <<IndexVar(Ok(prefix_type), TRUE, "k", FALSE)>>,
                                  <<AssignExpr(Ok(Integer), <<>>)>>)

SpecMembers == InitMembers /\ [][NextMembers]_vars

\* C19: every member stored under an Element(file, range) owner has a member
\* id of the owner's file, also when it was added by an assignment t.k = v
\* whose prefix infers to a table expression or instance of another file.
C19_ElementMembersOfOwnFile ==
    \A e \in member_index.members :
        e.owner.kind = "Element" => e.member_id.file_id = e.owner.range.file_id

(***************************************************************************)
(* Function statements and the class default call                          *)
(***************************************************************************)
MaxFuncStats == 3   \* function statements analyzed in one run

\* LuaType::Signature(signature_id)
Signature(signature_id) == [tag |-> "Signature", id |-> signature_id]

\* LuaOperator::new(owner, op, file_id, range, func)
LuaOperator(owner, op, file_id, range, func) ==
    [owner |-> owner, op |-> op, file_id |-> file_id, range |-> range, func |-> func]

DefaultCall(signature_id) == [kind |-> "DefaultCall", id |-> signature_id]

\* LuaOperatorIndex::get_operators(owner, op): the places of the owner's
\* operators of that kind; {} stands for None
get_operators(index, owner, op) ==
    {k \in 1..Len(index) : index[k].owner = owner /\ index[k].op = op}

\* LuaOperatorIndex::add_operator
add_operator(index, operator) == Append(index, operator)

\* try_add_class_default_call without the test for an existing operator
try_add_class_default_call_NoExistingTest(index, rc, file_id, func_name, position, signature_type) ==
    LET default_name == rc.runtime.class_default_call.function_name
    IN IF signature_type.tag # "Signature" THEN index
       ELSE IF default_name = "" THEN index
       ELSE IF func_name.kind # "IndexExpr" THEN index
       ELSE IF ~func_name.has_key THEN index
       ELSE IF func_name.name # default_name THEN index
       ELSE IF ~func_name.prefix.ok THEN index
       ELSE IF func_name.prefix.ty.tag # "Def" THEN index
       ELSE add_operator(index,
                LuaOperator(TypeOwner(func_name.prefix.ty.id), "Call", file_id, position,
                            DefaultCall(signature_type.id)))

\* try_add_class_default_call; the operator's range is the name token's
try_add_class_default_call(index, rc, file_id, func_name, position, signature_type) ==
    LET default_name == rc.runtime.class_default_call.function_name
    IN IF signature_type.tag # "Signature" THEN index
       ELSE IF default_name = "" THEN index
       ELSE IF func_name.kind # "IndexExpr" THEN index
       ELSE IF ~func_name.has_key THEN index
       ELSE IF func_name.name # default_name THEN index
       ELSE IF ~func_name.prefix.ok THEN index
       ELSE IF func_name.prefix.ty.tag # "Def" THEN index
       ELSE IF get_operators(index, TypeOwner(func_name.prefix.ty.id), "Call") # {} THEN index
       ELSE add_operator(index,
                LuaOperator(TypeOwner(func_name.prefix.ty.id), "Call", file_id, position,
                            DefaultCall(signature_type.id)))

\* analyze_func_stat on `function func_name() end`; closure is what
\* infer_expr answers for the closure
analyze_func_stat(file_id, func_name, closure) ==
    LET stat == Len(lua_stat) + 1
        position == NamePosition(stat, 0)
        type_owner == get_var_owner(file_id, func_name, position)
        st0 == [cache |-> type_cache, unres |-> unresolves, members |-> member_index]
        st1 == set_index_expr_owner(st0, file_id, func_name, position)
    IN /\ Len(lua_stat) < MaxFuncStats
       /\ IF ~closure.ok
          THEN UNCHANGED <<type_cache, unresolves, member_index, operator_index>>
          ELSE /\ type_cache' = TypeIndex_bind_type(st1.cache, type_owner, closure.ty)
               /\ unresolves' = st1.unres
               /\ member_index' = st1.members
               /\ operator_index' = try_add_class_default_call(
                      operator_index, emmyrc, file_id, func_name, position, closure.ty)
       /\ lua_stat' = Append(lua_stat, [kind |-> "func", file_id |-> file_id,
                                        func_name |-> func_name, closure |-> closure])
       /\ UNCHANGED emmyrc
       /\ UNCHANGED notLua

\* The configured name is empty or "new"; the classes T and U may have a
\* call operator from their doc comments before the statements are analyzed
DefaultCallNames == {"", "new"}

DocCall(id) == LuaOperator(TypeOwner(id), "Call", 1, <<0, 0>>, [kind |-> "Func"])

DocOperators == {<<>>, <<DocCall("T")>>, <<DocCall("U")>>}

FuncNames ==
    {NameExpr,
     IndexVar(Ok(Def("T")), TRUE, "new", FALSE),
     IndexVar(Ok(Def("T")), TRUE, "init", FALSE),
     IndexVar(Ok(Def("U")), TRUE, "new", FALSE),
     IndexVar(Ok(Ref("T")), TRUE, "new", FALSE),
     IndexVar(Err("UnResolveExpr"), TRUE, "new", FALSE)}

InitDefaultCall ==
    /\ WMIdle
    /\ AnalyzeIdle
    /\ InferIdle
    /\ LoadIdle
    /\ FindIdle
    /\ type_cache = <<>>
    /\ unresolves = <<>>
    /\ member_index = [owners |-> {}, members |-> {}]
    /\ operator_index \in DocOperators
    /\ lua_stat = <<>>
    /\ emmyrc \in {[runtime |-> [class_default_call |-> [function_name |-> n]]] :
                       n \in DefaultCallNames}

\* the closure of statement number stat has the signature id (file, stat)
NextDefaultCall ==
    \E func_name \in FuncNames :
        \/ analyze_func_stat(1, func_name, Ok(Signature(InFiled(1, Len(lua_stat) + 1))))
        \/ analyze_func_stat(1, func_name, ReasonNone)

SpecDefaultCall == InitDefaultCall /\ [][NextDefaultCall]_vars

\* the places of the call operators of class id installed by
\* try_add_class_default_call, and of those from its doc comments
DefaultCalls(id) ==
    {k \in get_operators(operator_index, TypeOwner(id), "Call") :
         operator_index[k].func.kind = "DefaultCall"}

DocCalls(id) ==
    {k \in get_operators(operator_index, TypeOwner(id), "Call") :
         operator_index[k].func.kind = "Func"}

\* statement k is `function T.N() end` with T a definition of class id, N
\* the configured name (not empty) and a closure that has a signature
IsDefaultCallStat(k, id) ==
    /\ lua_stat[k].kind = "func"
    /\ lua_stat[k].closure.ok
    /\ lua_stat[k].closure.ty.tag = "Signature"
    /\ lua_stat[k].func_name.kind = "IndexExpr"
    /\ lua_stat[k].func_name.has_key
    /\ emmyrc.runtime.class_default_call.function_name # ""
    /\ lua_stat[k].func_name.name = emmyrc.runtime.class_default_call.function_name
    /\ lua_stat[k].func_name.prefix = Ok(Def(id))

\* C20: with a configured name N that is not empty, `function T.N() end`
\* with T inferring to Def(T) installs a call operator on T whose function
\* is the closure's signature, provided T has no call operator yet; however
\* many function statements are analyzed T never has two operators from
\* this path (the first definition wins); with N empty none is installed.
C20_DefaultCallFirstWins ==
    \A id \in {"T", "U"} :
        /\ Cardinality(DefaultCalls(id)) <= 1
        /\ emmyrc.runtime.class_default_call.function_name = "" => DefaultCalls(id) = {}
        /\ DocCalls(id) # {} => DefaultCalls(id) = {}
        /\ \A k \in 1..Len(lua_stat) :
              (/\ IsDefaultCallStat(k, id)
               /\ \A j \in 1..(k - 1) : ~IsDefaultCallStat(j, id)
               /\ DocCalls(id) = {})
              => \E o \in DefaultCalls(id) :
                     /\ operator_index[o].func = DefaultCall(lua_stat[k].closure.ty.id)
                     /\ operator_index[o].file_id = lua_stat[k].file_id

\* T.new has been defined twice and T has the operator of the first
C20_Witness ==
    /\ Len(lua_stat) >= 2
    /\ \E j \in 1..Len(lua_stat), k \in 1..Len(lua_stat) :
          /\ j < k
          /\ IsDefaultCallStat(j, "T")
          /\ IsDefaultCallStat(k, "T")
          /\ \A o \in DefaultCalls("T") :
                 operator_index[o].func = DefaultCall(lua_stat[j].closure.ty.id)
    /\ Cardinality(DefaultCalls("T")) = 1

(***************************************************************************)
(* Configuration discovery                                                 *)
(***************************************************************************)
\* The configuration files load_emmy_config looks for, by place and name
HomeLuarc == [dir |-> "home", file |-> ".luarc.json"]

HomeEmmyrc == [dir |-> "home", file |-> ".emmyrc.json"]

ConfigDirLuarc == [dir |-> "config_dir", file |-> ".luarc.json"]

ConfigDirEmmyrc == [dir |-> "config_dir", file |-> ".emmyrc.json"]

EnvConfig == [dir |-> "env", file |-> "EMMYLUALS_CONFIG"]

RootLuarc == [dir |-> "config_root", file |-> ".luarc.json"]

RootEmmyrc == [dir |-> "config_root", file |-> ".emmyrc.json"]

ConfigPaths ==
    {HomeLuarc, HomeEmmyrc, ConfigDirLuarc, ConfigDirEmmyrc, EnvConfig, RootLuarc, RootEmmyrc}

\* push the path if the file exists
push_if_exists(config_files, fs, path) ==
    IF path \in fs.exists THEN Append(config_files, path) ELSE config_files

\* load_emmy_config, the collection of config_files; the workspace files
\* are collected before the file named by the environment
collect_config_files_RootBeforeEnv(fs) ==
    LET c0 == <<>>
        c1 == IF fs.home_dir THEN push_if_exists(push_if_exists(c0, fs, HomeLuarc), fs, HomeEmmyrc)
              ELSE c0
        c2 == IF fs.config_dir
              THEN push_if_exists(push_if_exists(c1, fs, ConfigDirLuarc), fs, ConfigDirEmmyrc)
              ELSE c1
        c3 == IF fs.config_root
              THEN push_if_exists(push_if_exists(c2, fs, RootLuarc), fs, RootEmmyrc)
              ELSE c2
        c4 == IF fs.env_var THEN push_if_exists(c3, fs, EnvConfig) ELSE c3
    IN c4

\* load_emmy_config, the collection of config_files: fs says whether
\* dirs::home_dir, dirs::config_dir, $EMMYLUALS_CONFIG and config_root are
\* there and which of the files exist
collect_config_files(fs) ==
    LET c0 == <<>>
        c1 == IF fs.home_dir THEN push_if_exists(push_if_exists(c0, fs, HomeLuarc), fs, HomeEmmyrc)
              ELSE c0
        c2 == IF fs.config_dir
              THEN push_if_exists(push_if_exists(c1, fs, ConfigDirLuarc), fs, ConfigDirEmmyrc)
              ELSE c1
        c3 == IF fs.env_var THEN push_if_exists(c2, fs, EnvConfig) ELSE c2
        c4 == IF fs.config_root
              THEN push_if_exists(push_if_exists(c3, fs, RootLuarc), fs, RootEmmyrc)
              ELSE c3
    IN c4

\* load_configs: the files are merged in order, then the client's partial
\* configurations; every source sets the same key, so the merged value
\* names the source applied last (<<>>: the default)
load_configs(config_files, partial_emmyrcs) ==
    LET sources == config_files \o partial_emmyrcs
    IN [value |-> IF sources = <<>> THEN <<>> ELSE <<sources[Len(sources)]>>,
        applied |-> sources,
        extensions |-> <<>>, ignore_globs |-> <<>>, encoding |-> "utf-8"]

\* merge_client_config
merge_client_config(client_config, rc) ==
    [rc EXCEPT !.extensions = @ \o client_config.extensions,
               !.ignore_globs = @ \o client_config.exclude,
               !.encoding = IF client_config.encoding # "utf-8"
                            THEN client_config.encoding ELSE @]

\* load_emmy_config(config_root, client_config) in the file system fs
load_emmy_config(fs, client_config) ==
    LET config_files == collect_config_files(fs)
    IN /\ ~config_load.asked
       /\ config_load' = [asked |-> TRUE, fs |-> fs, client_config |-> client_config,
                          config_files |-> config_files,
                          emmyrc |-> merge_client_config(client_config,
                                         load_configs(config_files,
                                                      client_config.partial_emmyrcs))]
       /\ UNCHANGED file_load
       /\ UNCHANGED notLoad

ClientPartial == [dir |-> "client", file |-> "partial"]

ClientConfigs ==
    [partial_emmyrcs : {<<>>, <<ClientPartial>>},
     extensions : {<<>>, <<".txt">>},
     exclude : {<<>>},
     encoding : {"utf-8", "gbk"}]

\* a file exists only where its directory is known
FileSystems ==
    {fs \in [home_dir : BOOLEAN, config_dir : BOOLEAN, env_var : BOOLEAN,
             config_root : BOOLEAN, exists : SUBSET ConfigPaths] :
        \A path \in fs.exists :
            /\ path.dir = "home" => fs.home_dir
            /\ path.dir = "config_dir" => fs.config_dir
            /\ path.dir = "env" => fs.env_var
            /\ path.dir = "config_root" => fs.config_root}

InitConfig == WMIdle /\ AnalyzeIdle /\ InferIdle /\ LuaIdle /\ LoadIdle /\ FindIdle

NextConfig ==
    \E fs \in FileSystems, client_config \in ClientConfigs : load_emmy_config(fs, client_config)

SpecConfig == InitConfig /\ [][NextConfig]_vars

\* the seven files in ascending priority
ConfigPriority ==
    <<HomeLuarc, HomeEmmyrc, ConfigDirLuarc, ConfigDirEmmyrc, EnvConfig, RootLuarc, RootEmmyrc>>

\* the place of a file in the priority order
PriorityOf(path) == CHOOSE k \in 1..Len(ConfigPriority) : ConfigPriority[k] = path

\* C21: the configuration files are collected in ascending priority (home
\* .luarc.json, home .emmyrc.json, config-dir .luarc.json, config-dir
\* .emmyrc.json, the $EMMYLUALS_CONFIG path, workspace .luarc.json,
\* workspace .emmyrc.json): exactly the present ones, each once, in that
\* relative order; the client's partial configuration is applied after all.
C21_ConfigPriority ==
    config_load.asked =>
        LET files == config_load.config_files
            applied == config_load.emmyrc.applied
        IN /\ {files[k] : k \in 1..Len(files)} = config_load.fs.exists
           /\ \A j \in 1..Len(files), k \in 1..Len(files) :
                  j < k => PriorityOf(files[j]) < PriorityOf(files[k])
           /\ \A k \in 1..Len(files) : applied[k] = files[k]
           /\ \A k \in 1..Len(applied) :
                  applied[k] = ClientPartial => k = Len(applied) /\ k = Len(files) + 1
           /\ config_load.client_config.partial_emmyrcs # <<>> =>
                  config_load.emmyrc.value = <<ClientPartial>>

\* all seven files exist and the client sent a partial configuration
C21_Witness ==
    /\ config_load.asked
    /\ config_load.fs.exists = ConfigPaths
    /\ Len(config_load.config_files) = 7
    /\ config_load.client_config.partial_emmyrcs = <<ClientPartial>>
    /\ config_load.emmyrc.value = <<ClientPartial>>

(***************************************************************************)
(* Workspace file selection                                                *)
(***************************************************************************)
\* The files under the workspace root: relative path and top directory
WorkspaceFilePaths ==
    {[rel |-> "a.lua", dir |-> ""], [rel |-> "lib/b.lua", dir |-> "lib"],
     [rel |-> "c.txt", dir |-> ""]}

\* The globs of the configuration; "[" is not a valid glob
GlobValid(glob) == glob # "["

\* the relative paths a valid glob matches
GlobMatches(glob) ==
    CASE glob = "**/*.lua" -> {"a.lua", "lib/b.lua"}
      [] glob = "**/*.txt" -> {"c.txt"}
      [] glob = "lib/**" -> {"lib/b.lua"}
      [] OTHER -> {}

\* wax::any(patterns): Err if one of the patterns does not compile, else
\* the matcher of the paths that one of them matches
wax_any(patterns) ==
    IF \E glob \in patterns : ~GlobValid(glob) THEN [ok |-> FALSE]
    ELSE [ok |-> TRUE, matches |-> UNION {GlobMatches(glob) : glob \in patterns}]

\* calculate_include_and_exclude: the include globs are "**/*.lua" and one
\* per runtime.extensions entry; sorted lists without duplicates are sets
extension_glob(extension) ==
    CASE extension = ".txt" -> "**/*.txt"
      [] extension = "*.txt" -> "**/*.txt"
      [] OTHER -> extension

calculate_include_and_exclude(rc) ==
    [include |-> {"**/*.lua"} \cup {extension_glob(x) : x \in rc.extensions},
     exclude |-> rc.ignore_globs,
     exclude_dir |-> rc.ignore_dir,
     force_include_globs |-> rc.force_include_path_globs]

\* the loop body of load_workspace_files up to the include test: whether
\* the file is selected for loading, given the three compiled matchers
load_selects(include_set, exclude_set, exclude_dir, force_include, file) ==
    IF (file.rel \in exclude_set.matches \/ file.dir \in exclude_dir)
       /\ file.rel \notin force_include.matches
    THEN FALSE
    ELSE file.rel \in include_set.matches

\* load_workspace_files: Ok with no files when the include or the exclude
\* globs do not compile, a panic (unwrap) when the force-include globs do
\* not; else the selected files that decode
load_workspace_files_result(cfg, undecodable) ==
    LET include_set == wax_any(cfg.include)
        exclude_set == wax_any(cfg.exclude)
        force_include == wax_any(cfg.force_include_globs)
    IN IF ~include_set.ok THEN [status |-> "Ok", files |-> {}]
       ELSE IF ~exclude_set.ok THEN [status |-> "Ok", files |-> {}]
       ELSE IF ~force_include.ok THEN [status |-> "panic", files |-> {}]
       ELSE [status |-> "Ok",
             files |-> {file \in WorkspaceFilePaths :
                           /\ load_selects(include_set, exclude_set, cfg.exclude_dir,
                                           force_include, file)
                           /\ file.rel \notin undecodable}]

\* WorkspaceFileMatcher::is_match(path, relative_path)
is_match_result(cfg, file) ==
    LET force_include == wax_any(cfg.force_include_globs)
        exclude_matcher == wax_any(cfg.exclude)
        include_matcher == wax_any(cfg.include)
    IN IF force_include.ok /\ file.rel \in force_include.matches THEN TRUE
       ELSE IF file.dir \in cfg.exclude_dir THEN FALSE
       ELSE IF exclude_matcher.ok /\ file.rel \in exclude_matcher.matches THEN FALSE
       ELSE IF include_matcher.ok THEN file.rel \in include_matcher.matches
       ELSE TRUE

\* collect_files on the one workspace root
load_workspace_files ==
    /\ file_load.asked
    /\ file_load.loaded = <<>>
    /\ file_load' = [file_load EXCEPT !.loaded =
           <<load_workspace_files_result(calculate_include_and_exclude(file_load.emmyrc),
                                         file_load.undecodable)>>]
    /\ UNCHANGED config_load
    /\ UNCHANGED notLoad

\* the file watcher asks the matcher about one file
is_match(file) ==
    /\ file_load.asked
    /\ file_load.matched = <<>>
    /\ file_load' = [file_load EXCEPT !.matched =
           <<[file |-> file,
              is_match |-> is_match_result(calculate_include_and_exclude(file_load.emmyrc),
                                           file)]>>]
    /\ UNCHANGED config_load
    /\ UNCHANGED notLoad

\* The settings: extensions, ignore globs, ignored directories and
\* force-include globs, each possibly with the glob that does not compile
LoadSettings ==
    [extensions : SUBSET {".txt", "["},
     ignore_globs : SUBSET {"lib/**", "**/*.txt", "["},
     ignore_dir : SUBSET {"lib"},
     force_include_path_globs : SUBSET {"lib/**", "**/*.txt", "["}]

InitFiles ==
    /\ WMIdle
    /\ AnalyzeIdle
    /\ InferIdle
    /\ LuaIdle
    /\ FindIdle
    /\ config_load = [asked |-> FALSE]
    /\ file_load \in [asked : {TRUE}, emmyrc : LoadSettings,
                      undecodable : SUBSET {"a.lua"}, loaded : {<<>>}, matched : {<<>>}]

NextFiles ==
    \/ load_workspace_files
    \/ \E file \in WorkspaceFilePaths : is_match(file)

SpecFiles == InitFiles /\ [][NextFiles]_vars

\* the settings handed to the two procedures
LoadCfg == calculate_include_and_exclude(file_load.emmyrc)

\* the file matches one of the globs (a glob that does not compile
\* matches nothing)
MatchesOneOf(globs, file) ==
    \E glob \in globs : GlobValid(glob) /\ file.rel \in GlobMatches(glob)

IsExcluded(cfg, file) == MatchesOneOf(cfg.exclude, file) \/ file.dir \in cfg.exclude_dir

IsLoaded(file) == file \in file_load.loaded[1].files

\* C22: for every file under the root, after load_workspace_files: an
\* excluded file (exclude glob or excluded directory) is loaded only if a
\* force-include glob matches it; no file is loaded that matches no include
\* glob; every file that matches an include glob, is not excluded or is
\* force-included, and decodes, is loaded.
C22_FileDiscoveryDecision ==
    (file_load.asked /\ file_load.loaded # <<>>) =>
        \A file \in WorkspaceFilePaths :
            /\ (IsExcluded(LoadCfg, file) /\ IsLoaded(file))
                   => MatchesOneOf(LoadCfg.force_include_globs, file)
            /\ IsLoaded(file) => MatchesOneOf(LoadCfg.include, file)
            /\ (/\ MatchesOneOf(LoadCfg.include, file)
                /\ ~IsExcluded(LoadCfg, file) \/ MatchesOneOf(LoadCfg.force_include_globs, file)
                /\ file.rel \notin file_load.undecodable)
                   => IsLoaded(file)

\* the settings without the globs that do not compile
ValidOnly(cfg) ==
    [cfg EXCEPT !.include = {glob \in @ : GlobValid(glob)},
                !.exclude = {glob \in @ : GlobValid(glob)},
                !.force_include_globs = {glob \in @ : GlobValid(glob)}]

\* the number of globs of the settings that do not compile
InvalidGlobs(cfg) ==
    Cardinality({glob \in cfg.include : ~GlobValid(glob)})
    + Cardinality({glob \in cfg.exclude : ~GlobValid(glob)})
    + Cardinality({glob \in cfg.force_include_globs : ~GlobValid(glob)})

\* C23: with one glob that does not compile among the include, exclude or
\* force-include globs, load_workspace_files does not fail and returns the
\* files that the remaining globs select, not an empty list.
C23_InvalidGlobIgnored ==
    (file_load.asked /\ file_load.loaded # <<>> /\ InvalidGlobs(LoadCfg) = 1) =>
        file_load.loaded[1] =
            load_workspace_files_result(ValidOnly(LoadCfg), file_load.undecodable)

\* C29: with globs that all compile, for every file under the root
\* WorkspaceFileMatcher::is_match answers true exactly when
\* load_workspace_files selects the file for loading.
C29_MatcherAgreesWithLoader ==
    (file_load.asked /\ file_load.matched # <<>> /\ InvalidGlobs(LoadCfg) = 0) =>
        LET file == file_load.matched[1].file
        IN file_load.matched[1].is_match =
               load_selects(wax_any(LoadCfg.include), wax_any(LoadCfg.exclude),
                            LoadCfg.exclude_dir, wax_any(LoadCfg.force_include_globs), file)

(***************************************************************************)
(* The order of the two lookup rules                                       *)
(***************************************************************************)
\* C24: infer_index_expr tries the declared-member rule first and the
\* operator rule second, for every prefix type: when the member rule
\* succeeds its answer is the lookup's (the operator rule has no say); when
\* the member rule finds no member and the operator rule has an answer, the
\* lookup does not fail; and a lookup that fails returns the member rule's
\* failure.  (Lookups in which a rule does not return are left aside.)
C24_MemberThenOperator ==
    (/\ index_result.asked
     /\ index_result.member # NoReturn
     /\ index_result.operator # NoReturn) =>
        /\ index_result.member.ok => index_result.expr = index_result.member
        /\ (~index_result.member.ok /\ index_result.operator.ok)
               => index_result.expr = index_result.operator
        /\ ~index_result.expr.ok => index_result.expr = index_result.member

(***************************************************************************)
(* Member enumeration (semantic/member/find_members.rs)                    *)
(***************************************************************************)
MaxFindSupers == 2    \* most super types declared by one class of the lookups below

\* FindMemberFilter
FilterAll == [kind |-> "All"]

FilterByKey(member_key, find_all) ==
    [kind |-> "ByKey", member_key |-> member_key, find_all |-> find_all]

\* FindMembersResult: None, or Some(members) with the LuaMemberInfo in order
NoMembers == [some |-> FALSE]

SomeMembers(members) == [some |-> TRUE, members |-> members]

\* LuaMemberInfo of a member the index holds, and of a member without owner id
MemberInfo(member) == [property_owner_id |-> member.id, key |-> member.key, typ |-> member.ty]

AnonymousInfo(key, typ) == [property_owner_id |-> "None", key |-> key, typ |-> typ]

should_include_member(key, filter) ==
    filter.kind = "All" \/ filter.member_key = key

should_stop_collecting(current_count, filter) ==
    filter.kind = "ByKey" /\ ~filter.find_all /\ current_count > 0

\* The loop shared by find_normal_members and find_custom_type_members: push
\* every included member, stop once should_stop_collecting says so
RECURSIVE collect_owner_members(_, _, _, _)
collect_owner_members(owner_members, i, members, filter) ==
    IF i > Len(owner_members) \/ should_stop_collecting(Len(members), filter) THEN members
    ELSE collect_owner_members(
             owner_members, i + 1,
             IF should_include_member(owner_members[i].key, filter)
             THEN Append(members, MemberInfo(owner_members[i])) ELSE members,
             filter)

\* find_normal_members for LuaMemberOwner::Element(range)
find_normal_members(dbi, range, filter) ==
    IF range \notin DOMAIN dbi.elements THEN NoMembers
    ELSE SomeMembers(collect_owner_members(SetToSeq(dbi.elements[range]), 1, <<>>, filter))

\* LuaTypeIndex::get_type_decl, None being the "undeclared" declaration
get_type_decl(dbi, id) ==
    IF id \in DOMAIN dbi.type_decls THEN dbi.type_decls[id]
    ELSE TypeDecl("undeclared", <<>>, <<>>, {}, <<>>)

\* LuaTypeIndex::get_relative_comp_types without the type itself
get_relative_comp_types(dbi, id) ==
    IF id \in DOMAIN dbi.comp_types
    THEN SelectSeq(dbi.comp_types[id], LAMBDA it : it # id) ELSE <<>>

RECURSIVE find_members_guard(_, _, _, _)

\* find_custom_type_members: the loops over the super types and over the
\* component types; both extend `members` and end at the first stop
RECURSIVE find_custom_type_members_supers(_, _, _, _, _, _)
find_custom_type_members_supers(dbi, super_types, i, members, infer_guard, filter) ==
    IF i > Len(super_types) \/ should_stop_collecting(Len(members), filter)
    THEN Returned(members, infer_guard)
    ELSE LET super_members == find_members_guard(dbi, super_types[i], infer_guard, filter)
         IN find_custom_type_members_supers(
                dbi, super_types, i + 1,
                IF super_members.res.some THEN members \o super_members.res.members
                ELSE members,
                super_members.guard, filter)

find_custom_type_members(dbi, type_decl_id, infer_guard, filter) ==
    LET checked == InferGuard_check(infer_guard, type_decl_id)
        guard == checked.guard
        type_decl == get_type_decl(dbi, type_decl_id)
    IN IF ~checked.ok THEN Returned(NoMembers, infer_guard)
       ELSE IF type_decl.kind = "undeclared" THEN Returned(NoMembers, guard)
       ELSE IF type_decl.kind = "alias"
            THEN IF type_decl.origin # <<>>
                 THEN find_members_guard(dbi, type_decl.origin[1], guard, filter)
                 ELSE find_members_guard(dbi, String, guard, filter)
       ELSE LET own == collect_owner_members(SetToSeq(type_decl.members), 1, <<>>, filter)
            IN IF should_stop_collecting(Len(own), filter) \/ ~is_class(type_decl)
               THEN Returned(SomeMembers(own), guard)
               ELSE LET sup == find_custom_type_members_supers(
                                   dbi, type_decl.supers, 1, own, guard, filter)
                        comp == find_custom_type_members_supers(
                                    dbi,
                                    [i \in 1..Len(get_relative_comp_types(dbi, type_decl_id))
                                        |-> Ref(get_relative_comp_types(dbi, type_decl_id)[i])],
                                    1, sup.res, sup.guard, filter)
                    IN Returned(SomeMembers(comp.res), comp.guard)

\* find_tuple_members
RECURSIVE find_tuple_members_loop(_, _, _, _)
find_tuple_members_loop(types, idx, members, filter) ==
    IF idx > Len(types) \/ should_stop_collecting(Len(members), filter) THEN members
    ELSE find_tuple_members_loop(
             types, idx + 1,
             IF should_include_member(MemberInteger(idx), filter)
             THEN Append(members, AnonymousInfo(MemberInteger(idx), types[idx]))
             ELSE members,
             filter)

find_tuple_members(tuple_type, filter) ==
    SomeMembers(find_tuple_members_loop(tuple_type.types, 1, <<>>, filter))

\* find_union_members
RECURSIVE find_union_members_loop(_, _, _, _, _, _)
find_union_members_loop(dbi, types, i, members, infer_guard, filter) ==
    IF i > Len(types) \/ should_stop_collecting(Len(members), filter)
    THEN Returned(members, infer_guard)
    ELSE LET sub_members == find_members_guard(dbi, types[i], infer_guard, filter)
         IN find_union_members_loop(
                dbi, types, i + 1,
                IF sub_members.res.some THEN members \o sub_members.res.members
                ELSE members,
                sub_members.guard, filter)

find_union_members(dbi, union_type, infer_guard, filter) ==
    LET found == find_union_members_loop(dbi, union_type.types, 1, <<>>, infer_guard, filter)
    IN Returned(SomeMembers(found.res), found.guard)

\* find_intersection_members: the member lists of the arms that gave one
RECURSIVE find_intersection_members_arms(_, _, _, _, _, _)
find_intersection_members_arms(dbi, types, i, members, infer_guard, filter) ==
    IF i > Len(types) THEN Returned(members, infer_guard)
    ELSE LET sub_members == find_members_guard(dbi, types[i], infer_guard, filter)
         IN find_intersection_members_arms(
                dbi, types, i + 1,
                IF sub_members.res.some THEN Append(members, sub_members.res.members)
                ELSE members,
                sub_members.guard, filter)

RECURSIVE Flatten(_)
Flatten(lists) == IF lists = <<>> THEN <<>> ELSE Head(lists) \o Flatten(Tail(lists))

\* find_intersection_members: one member per key, in order of appearance
RECURSIVE find_intersection_members_merge(_, _, _, _)
find_intersection_members_merge(flat, i, result, filter) ==
    IF i > Len(flat) \/ should_stop_collecting(Len(result), filter) THEN result
    ELSE find_intersection_members_merge(
             flat, i + 1,
             IF \E j \in 1..Len(result) : result[j].key = flat[i].key THEN result
             ELSE Append(result, AnonymousInfo(flat[i].key, flat[i].typ)),
             filter)

find_intersection_members(dbi, intersection_type, infer_guard, filter) ==
    LET arms == find_intersection_members_arms(dbi, intersection_type.types, 1, <<>>,
                                               infer_guard, filter)
        members == arms.res
    IN IF members = <<>> THEN Returned(NoMembers, arms.guard)
       ELSE IF Len(members) = 1 THEN Returned(SomeMembers(members[1]), arms.guard)
       ELSE Returned(SomeMembers(find_intersection_members_merge(
                                     Flatten(members), 1, <<>>, filter)),
                     arms.guard)

\* find_generic_members_from_super_generics: the members of every super type
\* that the substitution changes, all of them, whatever the filter
RECURSIVE find_generic_members_from_supers(_, _, _, _, _, _, _)
find_generic_members_from_supers(dbi, super_types, i, substitutor, members, infer_guard, filter) ==
    IF i > Len(super_types) THEN Returned(members, infer_guard)
    ELSE LET super_type_sub == instantiate_type_generic(super_types[i], substitutor)
         IN IF super_type_sub = super_types[i]
            THEN find_generic_members_from_supers(dbi, super_types, i + 1, substitutor,
                                                  members, infer_guard, filter)
            ELSE LET found == find_members_guard(
                                  dbi, instantiate_type_generic(super_type_sub, substitutor),
                                  infer_guard, filter)
                 IN find_generic_members_from_supers(
                        dbi, super_types, i + 1, substitutor,
                        IF found.res.some THEN members \o found.res.members ELSE members,
                        found.guard, filter)

find_generic_members_from_super_generics(dbi, type_decl_id, substitutor, infer_guard, filter) ==
    LET type_decl == get_type_decl(dbi, type_decl_id)
    IN IF ~is_class(type_decl) THEN Returned(<<>>, infer_guard)
       ELSE find_generic_members_from_supers(dbi, type_decl.supers, 1, substitutor,
                                             <<>>, infer_guard, filter)

find_generic_members(dbi, generic_type, infer_guard, filter) ==
    LET base == find_members_guard(dbi, generic_type.base, infer_guard, filter)
        substitutor == generic_type.params
        members == IF base.res.some
                   THEN [i \in 1..Len(base.res.members) |->
                            [base.res.members[i] EXCEPT
                                !.typ = instantiate_type_generic(@, substitutor)]]
                   ELSE <<>>
        supers == find_generic_members_from_super_generics(
                      dbi, generic_type.base.id, substitutor, base.guard, filter)
    IN IF ~base.res.some THEN Returned(NoMembers, base.guard)
       ELSE IF generic_type.base.tag = "Ref"
            THEN Returned(SomeMembers(members \o supers.res), supers.guard)
            ELSE Returned(SomeMembers(members), base.guard)

\* find_instance_members: the table literal's own members, then the base's
find_instance_members(dbi, inst, infer_guard, filter) ==
    LET normal_members == find_normal_members(dbi, inst.range, filter)
        members == IF normal_members.some THEN normal_members.members ELSE <<>>
        origin_members == find_members_guard(dbi, inst.base, infer_guard, filter)
    IN IF should_stop_collecting(Len(members), filter)
       THEN Returned(SomeMembers(members), infer_guard)
       ELSE Returned(SomeMembers(IF origin_members.res.some
                                 THEN members \o origin_members.res.members
                                 ELSE members),
                     origin_members.guard)

\* get_buildin_type_map_type_id
get_buildin_type_map_type_id(ty) == "string"

find_members_guard(dbi, prefix_type, infer_guard, filter) ==
    CASE prefix_type.tag = "TableConst" ->
            Returned(find_normal_members(dbi, prefix_type.range, filter), infer_guard)
      [] prefix_type.tag \in {"String", "StringConst"} ->
            find_custom_type_members(dbi, get_buildin_type_map_type_id(prefix_type),
                                     infer_guard, filter)
      [] prefix_type.tag \in {"Ref", "Def"} ->
            find_custom_type_members(dbi, prefix_type.id, infer_guard, filter)
      [] prefix_type.tag = "Tuple" ->
            Returned(find_tuple_members(prefix_type, filter), infer_guard)
      [] prefix_type.tag = "Union" ->
            find_union_members(dbi, prefix_type, infer_guard, filter)
      [] prefix_type.tag = "Intersection" ->
            find_intersection_members(dbi, prefix_type, infer_guard, filter)
      [] prefix_type.tag = "Generic" ->
            find_generic_members(dbi, prefix_type, infer_guard, filter)
      [] prefix_type.tag = "Instance" ->
            find_instance_members(dbi, prefix_type, infer_guard, filter)
      [] OTHER -> Returned(NoMembers, infer_guard)

\* find_members_with_key, asked once in a behaviour (it reads db_index only)
find_members_with_key(prefix_type, member_key, find_all) ==
    /\ ~member_query.asked
    /\ member_query' =
           [asked |-> TRUE, prefix_type |-> prefix_type,
            filter |-> FilterByKey(member_key, find_all),
            result |-> find_members_guard(db_index, prefix_type, {},
                                          FilterByKey(member_key, find_all)).res]
    /\ UNCHANGED notFind

\* find_members
find_members(prefix_type) ==
    /\ ~member_query.asked
    /\ member_query' =
           [asked |-> TRUE, prefix_type |-> prefix_type, filter |-> FilterAll,
            result |-> find_members_guard(db_index, prefix_type, {}, FilterAll).res]
    /\ UNCHANGED notFind

\* Declarations for the lookups: class A with up to MaxFindSupers super types
\* (B itself or B instantiated with A's first type parameter), or an alias of
\* B or of nothing; class B; each class with no member, x, or x and y. One
\* table literal, unknown to the member index or owning x, or x and y. B is
\* or is not a component type of A.
FindMember(owner, name, ty) == [id |-> <<owner, name>>, key |-> MemberName(name), ty |-> ty]

FindMembers(owner, ty) ==
    {{}, {FindMember(owner, "x", ty)},
     {FindMember(owner, "x", ty), FindMember(owner, "y", ty)}}

FindSupers == {Ref("B"), Generic(Ref("B"), <<TplRef(1)>>)}

FindSuperSeqs == UNION {[1..n -> FindSupers] : n \in 0..MaxFindSupers}

FindDecls(id) ==
    IF id = "A"
    THEN {TypeDecl("class", su, <<>>, m, <<>>) :
              su \in FindSuperSeqs, m \in FindMembers("A", TplRef(1))}
         \cup {TypeDecl("alias", <<>>, o, {}, <<>>) : o \in {<<>>, <<Ref("B")>>}}
    ELSE {TypeDecl("class", <<>>, <<>>, m, <<>>) : m \in FindMembers("B", String)}

TheTable == InFiled(1, 10)

FindElements ==
    {<<>>} \cup {[r \in {TheTable} |-> m] : m \in FindMembers("table", Number) \ {{}}}

FindPrefixes ==
    {Ref("A"), Generic(Ref("A"), <<Integer>>), Union(<<Ref("A"), Ref("B")>>),
     Intersection(<<Ref("A"), Ref("B")>>), Instance(Ref("A"), TheTable),
     Instance(Ref("B"), TheTable), TableConst(TheTable), Tuple(<<Integer, String>>)}

FindKeys == {MemberName("x"), MemberInteger(1)}

InitFind ==
    /\ WMIdle
    /\ AnalyzeIdle
    /\ LuaIdle
    /\ LoadIdle
    /\ FindIdle
    /\ db_index \in {[type_decls |-> [id \in TypeIds |-> IF id = "A" THEN a ELSE b],
                      strict_array_index |-> FALSE, elements |-> e,
                      metatables |-> <<>>, table_operators |-> <<>>,
                      comp_types |-> [id \in {"A"} |-> c]] :
                         a \in FindDecls("A"), b \in FindDecls("B"),
                         e \in FindElements, c \in {<<>>, <<"B">>}}
    /\ index_query = [asked |-> FALSE]
    /\ index_result = [asked |-> FALSE]

NextFind ==
    \/ \E prefix_type \in {p \in FindPrefixes : p.tag = "Instance"} :
           infer_index_expr(prefix_type, IndexExpr(KeyName("x")))
    \/ \E prefix_type \in FindPrefixes, member_key \in FindKeys, find_all \in BOOLEAN :
           find_members_with_key(prefix_type, member_key, find_all)
    \/ \E prefix_type \in FindPrefixes : find_members(prefix_type)

SpecFind == InitFind /\ [][NextFind]_vars

\* Both lookups were made for the same key of the same instance type, the
\* enumeration with find_all = false
SameInstanceLookup ==
    /\ index_query.asked
    /\ member_query.asked
    /\ index_query.prefix_type.tag = "Instance"
    /\ member_query.prefix_type = index_query.prefix_type
    /\ member_query.filter.kind = "ByKey"
    /\ member_query.filter.member_key = from_index_key(index_query.index_expr.key)
    /\ ~member_query.filter.find_all

\* the declarations of the asked key by the instance's base class itself and
\* by its table literal
BaseDeclarations ==
    LET base == index_query.prefix_type.base
    IN IF base.tag = "Ref" /\ is_class(get_type_decl(db_index, base.id))
       THEN get_member_item(get_type_decl(db_index, base.id), member_query.filter.member_key)
       ELSE {}

LiteralDeclarations ==
    get_member_item([members |-> element_members(db_index, index_query.prefix_type.range)],
                    member_query.filter.member_key)

\* C25: for Instance(base, r) whose base and whose table literal at r both
\* declare the key, infer_member_by_member_key and find_members_with_key
\* with find_all = false select the same declaration, the base's.
C25_InstanceBaseFirst ==
    (SameInstanceLookup /\ BaseDeclarations # {} /\ LiteralDeclarations # {}) =>
        \E m \in BaseDeclarations :
            /\ index_result.member = Ok(m.ty)
            /\ member_query.result = SomeMembers(<<MemberInfo(m)>>)

\* C30: find_members_with_key returns only members whose key is the key
\* asked for, and at most one member when find_all is false, whatever the
\* prefix type (supers, component types, unions, intersections, instances,
\* generic types whose base has generic-instantiated super types).
C30_AtMostOneMemberOfKey ==
    (member_query.asked /\ member_query.filter.kind = "ByKey" /\ member_query.result.some) =>
        LET members == member_query.result.members
        IN /\ \A i \in 1..Len(members) : members[i].key = member_query.filter.member_key
           /\ ~member_query.filter.find_all => Len(members) <= 1

(***************************************************************************)
(* The operator rule on table literals (infer_member_by_index_table)       *)
(***************************************************************************)
MaxTableOperators == 2   \* most __index operators registered for one metatable

TheMetatable == InFiled(1, 20)

\* an __index operator: integer keys give a Number, string keys a Table
TableOperator(operand) ==
    [operand |-> operand, result |-> IF operand = Integer THEN Number ELSE Table]

TableOperatorSeqs ==
    UNION {[1..n -> {TableOperator(Integer), TableOperator(String)}] :
               n \in 1..MaxTableOperators}

TableKeys ==
    {KeyName("x"), KeyInteger(1), KeyExpr(String, FALSE), KeyExpr(Integer, FALSE), KeyMissing}

\* The literal has a metatable or not; the metatable has __index operators
\* or none; the literal owns x, x and y, or is unknown to the member index.
InitTable ==
    /\ WMIdle
    /\ AnalyzeIdle
    /\ LuaIdle
    /\ LoadIdle
    /\ FindIdle
    /\ db_index \in {[type_decls |-> [id \in TypeIds |->
                                         TypeDecl("undeclared", <<>>, <<>>, {}, <<>>)],
                      strict_array_index |-> FALSE, elements |-> e,
                      metatables |-> m, table_operators |-> o,
                      comp_types |-> <<>>] :
                         e \in FindElements,
                         m \in {<<>>, [r \in {TheTable} |-> TheMetatable]},
                         o \in {<<>>} \cup {[r \in {TheMetatable} |-> ops] :
                                               ops \in TableOperatorSeqs}}
    /\ index_query = [asked |-> FALSE]
    /\ index_result = [asked |-> FALSE]

NextTable ==
    \E key \in TableKeys : infer_index_expr(TableConst(TheTable), IndexExpr(key))

SpecTable == InitTable /\ [][NextTable]_vars

\* the lookup asked for a key of a table literal whose metatable is
\* registered and has __index operators
IsMetatableLookup ==
    /\ index_query.asked
    /\ index_query.prefix_type.tag = "TableConst"
    /\ index_query.index_expr.key # KeyMissing
    /\ index_query.prefix_type.range \in DOMAIN db_index.metatables
    /\ db_index.metatables[index_query.prefix_type.range] \in DOMAIN db_index.table_operators

MetatableOperators ==
    db_index.table_operators[db_index.metatables[index_query.prefix_type.range]]

\* C26: for a table literal with a registered metatable the operator rule
\* answers with the result of the first __index operator, in order, whose
\* operand type accepts the key, and with FieldNotFound only if no
\* registered operator accepts it.
C26_MetatableOperatorsInOrder ==
    IsMetatableLookup =>
        LET ops == MetatableOperators
            key == index_query.index_expr.key
            accepting == {i \in 1..Len(ops) :
                              infer_index_metamethod(key, ops[i].operand, ops[i].result).ok}
        IN IF accepting = {} THEN index_result.operator = FieldNotFound
           ELSE index_result.operator =
                    Ok(ops[CHOOSE i \in accepting : \A j \in accepting : i <= j].result)

====
